---- MODULE Spec2Model ----
(***************************************************************************)
(* A model of the pipedetect pose-detection pipeline:                      *)
(* PoseProcessor.process_input and the modes it dispatches to, the         *)
(* validators, the FileManager, the exporters and the command's main().    *)
(* One behaviour of Spec is one run of the command on one input.           *)
(***************************************************************************)
EXTENDS Naturals, Integers, Sequences, FiniteSets, TLC

\* ------------------------------------------------------------------ bounds
\* The longest video (frames the capture delivers before end of stream).
MaxFrames == 3
\* The number of entries of the directory universe that a listing may hold.
MaxFiles == 4
\* Sampling rounds the sampler threads begin in all.
MaxSamples == 2
\* Calls of PerformanceProfiler.start.
MaxStarts == 2

\* ------------------------------------------------------- names and suffixes
\* A file name is a sequence of one-character strings.
\* Ord is the code point Python compares strings by (str.__lt__).
Ord(c) ==
    CASE c = "." -> 46
      [] c = "4" -> 52
      [] c = "B" -> 66
      [] c = "F" -> 70
      [] c = "G" -> 71
      [] c = "I" -> 73
      [] c = "J" -> 74
      [] c = "M" -> 77
      [] c = "N" -> 78
      [] c = "P" -> 80
      [] c = "T" -> 84
      [] c = "V" -> 86
      [] c = "a" -> 97
      [] c = "b" -> 98
      [] c = "c" -> 99
      [] c = "d" -> 100
      [] c = "e" -> 101
      [] c = "f" -> 102
      [] c = "g" -> 103
      [] c = "i" -> 105
      [] c = "j" -> 106
      [] c = "m" -> 109
      [] c = "n" -> 110
      [] c = "p" -> 112
      [] c = "t" -> 116
      [] c = "v" -> 118
      [] c = "x" -> 120
      [] OTHER -> 0

\* str.lower() on one character.
LowerChar(c) ==
    CASE c = "B" -> "b"
      [] c = "F" -> "f"
      [] c = "G" -> "g"
      [] c = "I" -> "i"
      [] c = "J" -> "j"
      [] c = "M" -> "m"
      [] c = "N" -> "n"
      [] c = "P" -> "p"
      [] c = "T" -> "t"
      [] c = "V" -> "v"
      [] OTHER -> c

Lower(s) == [i \in 1..Len(s) |-> LowerChar(s[i])]

\* Python's sequence comparison a < b: the first differing element decides,
\* a proper prefix is smaller.
RECURSIVE LexLess(_, _)
LexLess(a, b) ==
    IF b = <<>> THEN FALSE
    ELSE IF a = <<>> THEN TRUE
    ELSE IF Ord(Head(a)) < Ord(Head(b)) THEN TRUE
    ELSE IF Ord(Head(a)) > Ord(Head(b)) THEN FALSE
    ELSE LexLess(Tail(a), Tail(b))

\* The positions of "." in a name, not counting a leading dot.
DotPositions(name) == {i \in 2..Len(name) : name[i] = "."}

Max(S) == CHOOSE x \in S : \A y \in S : y <= x

\* pathlib's PurePath.suffix: the final component from its last dot on
\* ("" when there is none, or when the name ends with the dot).
Suffix(name) ==
    IF DotPositions(name) = {} \/ Max(DotPositions(name)) = Len(name)
    THEN <<>>
    ELSE SubSeq(name, Max(DotPositions(name)), Len(name))

SUPPORTED_IMAGE_EXTENSIONS ==
    { <<".", "j", "p", "g">>, <<".", "j", "p", "e", "g">>,
      <<".", "p", "n", "g">>, <<".", "b", "m", "p">>,
      <<".", "t", "i", "f", "f">>, <<".", "t", "i", "f">>,
      <<".", "w", "e", "b", "p">> }

SUPPORTED_VIDEO_EXTENSIONS ==
    { <<".", "m", "p", "4">>, <<".", "a", "v", "i">>, <<".", "m", "o", "v">>,
      <<".", "m", "k", "v">>, <<".", "w", "m", "v">>, <<".", "f", "l", "v">>,
      <<".", "w", "e", "b", "m">>, <<".", "m", "4", "v">> }

\* A faulty variant: the suffix compared as it is spelled.
is_image_file_CaseSensitive(p) ==
    IF ~p.is_file THEN FALSE
    ELSE Suffix(p.name) \in SUPPORTED_IMAGE_EXTENSIONS

\* A path is [exists, is_file, is_dir, name].
is_image_file(p) ==
    IF ~p.is_file THEN FALSE
    ELSE Lower(Suffix(p.name)) \in SUPPORTED_IMAGE_EXTENSIONS

is_video_file(p) ==
    IF ~p.is_file THEN FALSE
    ELSE Lower(Suffix(p.name)) \in SUPPORTED_VIDEO_EXTENSIONS

\* InputValidator.validate_input_path: the error it raises, "none" if it returns.
validate_input_path(p) ==
    IF ~p.exists THEN "ValidationError" ELSE "none"

\* A faulty variant: a file that is no image is taken for a video.
get_input_type_VideoByDefault(p) ==
    IF p.is_file
    THEN IF is_image_file(p) THEN "image" ELSE "video"
    ELSE IF p.is_dir THEN "directory"
    ELSE "ValidationError"

\* InputValidator.get_input_type: the type, or "ValidationError".
get_input_type(p) ==
    IF p.is_file
    THEN IF is_image_file(p) THEN "image"
         ELSE IF is_video_file(p) THEN "video"
         ELSE "ValidationError"
    ELSE IF p.is_dir THEN "directory"
    ELSE "ValidationError"

\* sorted(): insertion of one name into a sorted list, then the whole sort.
RECURSIVE InsertSorted(_, _)
InsertSorted(x, s) ==
    IF s = <<>> THEN <<x>>
    ELSE IF LexLess(x, Head(s)) THEN <<x>> \o s
    ELSE <<Head(s)>> \o InsertSorted(x, Tail(s))

RECURSIVE Sorted(_)
Sorted(s) ==
    IF s = <<>> THEN <<>> ELSE InsertSorted(Head(s), Sorted(Tail(s)))

\* The entries of a listing that is_image_file accepts, in listing order
\* (the loop of validate_image_directory; every entry is a regular file).
RECURSIVE FilterImages(_)
FilterImages(listing) ==
    IF listing = <<>> THEN <<>>
    ELSE IF is_image_file([exists |-> TRUE, is_file |-> TRUE, is_dir |-> FALSE,
                           name |-> Head(listing)])
         THEN <<Head(listing)>> \o FilterImages(Tail(listing))
         ELSE FilterImages(Tail(listing))

\* A faulty variant: the list returned in enumeration order.
validate_image_directory_Unsorted(listing) == FilterImages(listing)

\* InputValidator.validate_image_directory on a directory whose iterdir()
\* yields `listing`: the sorted image files (<<>> stands for ValidationError,
\* which the function raises exactly when no image file was found).
validate_image_directory(listing) == Sorted(FilterImages(listing))


\* ------------------------------------------------------------------ inputs
\* The names a directory may hold: images (one with an upper-case suffix, one
\* whose stem is a prefix of another's), and a file that is no image.
DirUniverse ==
    << <<"b", ".", "j", "p", "g">>,
       <<"a", ".", "P", "N", "G">>,
       <<"c", ".", "t", "x", "t">>,
       <<"a", "b", ".", "p", "n", "g">>,
       <<"B", ".", "j", "p", "e", "g">>,
       <<"a", ".", "j", "p", "g">> >>

DirNames == {DirUniverse[i] : i \in 1..MaxFiles}

\* Every order in which iterdir() may enumerate every subset of DirNames.
Listings ==
    {s \in UNION {[1..n -> DirNames] : n \in 0..MaxFiles} :
        \A i, j \in 1..Len(s) : i # j => s[i] # s[j]}

\* The directories: every subset of DirNames, its entries written down in the
\* order of DirUniverse (an order of no meaning to the program).
UniverseIndex(name) == CHOOSE i \in 1..Len(DirUniverse) : DirUniverse[i] = name
Directories ==
    {s \in Listings :
        \A i, j \in 1..Len(s) : i < j => UniverseIndex(s[i]) < UniverseIndex(s[j])}

\* Every order in which iterdir() may yield the entries of a directory.
Enumerations(entries) ==
    {s \in Listings :
        /\ Len(s) = Len(entries)
        /\ \A i \in 1..Len(entries) : \E j \in 1..Len(s) : s[j] = entries[i]}

File(name) == [exists |-> TRUE, is_file |-> TRUE, is_dir |-> FALSE, name |-> name]

VideoPath == File(<<"v", ".", "m", "p", "4">>)
ImagePath == File(<<"a", ".", "J", "P", "G">>)
TextPath == File(<<"c", ".", "t", "x", "t">>)
DirPath == [exists |-> TRUE, is_file |-> FALSE, is_dir |-> TRUE, name |-> <<"d">>]
MissingPath == [exists |-> FALSE, is_file |-> FALSE, is_dir |-> FALSE,
                name |-> <<"m", ".", "m", "p", "4">>]
\* Exists, but is neither a regular file nor a directory (a socket, a device).
SpecialPath == [exists |-> TRUE, is_file |-> FALSE, is_dir |-> FALSE, name |-> <<"p">>]

\* A capture: whether it opens, the frames it delivers, and the frame rate
\* cap.get(CAP_PROP_FPS) reports (0 when the container does not tell).
NoVideo == [opens |-> FALSE, nframes |-> 0, fps |-> 0]
Videos ==
    {NoVideo} \cup {[opens |-> TRUE, nframes |-> n, fps |-> f] :
                        n \in 0..MaxFrames, f \in {0, 25}}

\* One call of the Estimator (MediaPipeWrapper.detect_pose): the image it was
\* given (a video frame by its 1-based read position, an image file by its
\* name) and what it did: "pose" (landmarks), "none" (None) or "raise".
Call(image, outcome) == [image |-> image, outcome |-> outcome, landmarks |-> <<>>]

\* A call that returned the landmark list lm.
PoseCall(image, lm) == [image |-> image, outcome |-> "pose", landmarks |-> lm]

\* ------------------------------------------------- landmarks and confidence
\* A float that is a quotient is kept as the fraction [num, den], den > 0;
\* a fraction with den = 0 stands for the ZeroDivisionError of the division.
Fraction(n, d) == [num |-> n, den |-> d]
FractionEq(a, b) == a.num * b.den = b.num * a.den
FractionLess(a, b) == a.num * b.den < b.num * a.den

\* The float 1.0: landmark scores and confidences are kept in hundredths.
One == 100

\* models.py 19-25: a LandmarkPoint. The coordinates are told apart from the
\* scores and from 0 by their values.
LandmarkPoint(i, visibility, presence) ==
    [x |-> 1000 + i, y |-> 2000 + i, z |-> 3000 + i,
     visibility |-> visibility, presence |-> presence]

\* The pose the Estimator finds in the k-th input when it finds one: one to
\* three landmarks, with scores that differ from landmark to landmark and
\* from input to input.
PoseIn(k) ==
    [i \in 1..((k % 3) + 1) |->
        LandmarkPoint(i - 1, (37 * (i + k)) % (One + 1), (53 * (i + k)) % (One + 1))]

\* Landmark lists no conformant Estimator returns: an empty one, one with
\* visibilities above 1.0, and one with negative visibilities.
BadPoses ==
    { <<>>,
      <<LandmarkPoint(0, One + 50, One), LandmarkPoint(1, One, One)>>,
      <<LandmarkPoint(0, 0 - 50, One), LandmarkPoint(1, 0, One)>> }

\* What detect_pose may return for the k-th input when it returns landmarks.
EstimatorLandmarks(k) == {PoseIn(k)} \cup BadPoses

\* What detect_pose returns with outcome est.
EstimatorReturns(est, k) == IF est = "pose" THEN EstimatorLandmarks(k) ELSE {<<>>}

RECURSIVE Sum(_)
Sum(values) == IF values = <<>> THEN 0 ELSE Head(values) + Sum(Tail(values))

Visibilities(landmarks) == [i \in 1..Len(landmarks) |-> landmarks[i].visibility]
Presences(landmarks) == [i \in 1..Len(landmarks) |-> landmarks[i].presence]

\* A faulty variant: the mean of the presence scores.
Confidence_MeanPresence(landmarks) ==
    Fraction(Sum(Presences(landmarks)), Len(landmarks))

\* processor.py 182, pose_detector.py 56:
\* sum(lm.visibility for lm in landmarks) / len(landmarks).
Confidence(landmarks) ==
    Fraction(Sum(Visibilities(landmarks)), Len(landmarks))

\* A faulty variant: every value accepted.
validate_confidence_Any(v) == TRUE

\* models.py 38-44: PoseResult.validate_confidence, TRUE when v is accepted
\* (0.0 <= v <= 1.0), FALSE when ValueError is raised.
validate_confidence(v) == 0 <= v.num /\ v.num <= One * v.den

\* Whether the confidence is computed and PoseResult(...) is constructed
\* for the landmark list: the division and the validator both pass.
PoseResultConstructs(landmarks) ==
    /\ Len(landmarks) # 0
    /\ validate_confidence(Confidence(landmarks))

\* ------------------------------------------------------------------- state
VARIABLES
    input_path,         \* the path given to process_input
    video,              \* what cv2.VideoCapture finds at a video path
    listing,            \* the entries of the directory at a directory path
    save_frames, save_overlays, show_progress,   \* PoseProcessor's flags
    dirs_before,        \* the output directories that existed before the run
    pc,                 \* where the run is
    input_type,         \* get_input_type's answer
    fs_dirs,            \* the output directories that exist
    frame_files,        \* writes into frames_dir, in order: [id, read_index]
    overlay_files,      \* writes into overlay_dir, in order: [id, read_index, plain]
    image_files,        \* directory mode: validate_image_directory's list
    iterdir_sorted,     \* whether iterdir() yielded the images in sorted order
    frames_read,        \* frames read from the capture / images visited
    saved_frame_counter,
    detected_poses,     \* the accumulated PoseResults
    estimator_calls,    \* the calls of detect_pose, in order
    frames_processed,   \* profiler.metrics.frames_processed
    profiler_started,
    progress_active, progress_updates, progress_failed,   \* the ProgressTracker
    capture_open,       \* the cv2.VideoCapture of the frame loop is open and not released
    failed_write,       \* ghost: the artifact whose write failed, "none" if none
    stats,              \* the ProcessingStats of the run
    json_file, csv_file,                 \* the two export files
    error,              \* the exception that left process_input, "none" if none
    exception,          \* ghost: the exception raised inside its try block
    exit_code,          \* the command's exit status, -1 while it runs
    profiler_pc,        \* where the caller of PerformanceProfiler is
    stop_monitoring,    \* the Event _stop_monitoring
    monitoring_threads, \* every sampler thread started, the last is _monitoring_thread
    cpu_samples,        \* _cpu_samples
    memory_samples,     \* _memory_samples
    stop_sum,           \* stop(): the samples summed, before len() is read
    metrics,            \* the aggregates of PerformanceMetrics
    pose_handle,        \* the MediaPipe handle _pose: "open" or "closed"
    run,                \* "first", or "second" for a later call of process_input
    frames_at_start,    \* ghost: metrics.frames_processed when the run began
    heap,               \* the image arrays allocated, an array's reference is its index
    render_call,        \* the arguments of the OverlayRenderer call under way
    render_pc,          \* where that call stands
    overlay_image,      \* its local overlay_image: a reference, 0 when unbound
    render_returned     \* the reference it returned, 0 before it returns

inputVars == <<input_path, video, listing, save_frames, save_overlays,
               show_progress, dirs_before>>
fileVars == <<fs_dirs, frame_files, overlay_files, json_file, csv_file>>
loopVars == <<image_files, iterdir_sorted, frames_read, saved_frame_counter, detected_poses,
              estimator_calls, frames_processed>>
progressVars == <<progress_active, progress_updates, progress_failed>>
processorVars == <<pose_handle, run, frames_at_start>>
rendererVars == <<heap, render_call, render_pc, overlay_image, render_returned>>
samplerVars == <<profiler_pc, stop_monitoring, monitoring_threads, cpu_samples,
                 memory_samples, stop_sum, metrics>>
vars == <<inputVars, samplerVars, processorVars, rendererVars, fileVars, loopVars, progressVars, capture_open, failed_write, pc, input_type,
          profiler_started, stats, error, exception, exit_code>>

Absent == [state |-> "absent"]

\* performance.py 17-21: an aggregate of PerformanceMetrics before stop()
\* writes it (0.0); afterwards the samples summed and the length divided by.
NoMean == [summed |-> <<>>, len |-> 0]

\* processor.py 49-54, mediapipe_wrapper.py 27-35: a PoseProcessor as it is
\* constructed, before its first call of process_input.
InitProcessor ==
    /\ pose_handle = "open"
    /\ run = "first"
    /\ frames_at_start = 0

\* No call of the OverlayRenderer under way and no array allocated.
NoRenderCall == [method |-> "none"]

InitRenderer ==
    /\ heap = <<>>
    /\ render_call = NoRenderCall
    /\ render_pc = "idle"
    /\ overlay_image = 0
    /\ render_returned = 0

\* performance.py 37-50: PerformanceProfiler.__init__.
InitSampler ==
    /\ profiler_pc = "new"
    /\ stop_monitoring = FALSE
    /\ monitoring_threads = <<>>
    /\ cpu_samples = <<>>
    /\ memory_samples = <<>>
    /\ stop_sum = <<>>
    /\ metrics = [cpu_percent |-> NoMean, memory_percent |-> NoMean,
                  memory_mb |-> NoMean, processing_time |-> 0,
                  fps |-> Fraction(0, 1)]
NoStats == [total_frames |-> 0, processed_frames |-> 0, failed_frames |-> 0]

Init ==
    /\ \E p \in {VideoPath, ImagePath, TextPath, DirPath, MissingPath, SpecialPath} :
         /\ input_path = p
         /\ video \in (IF p = VideoPath THEN Videos ELSE {NoVideo})
         /\ listing \in (IF p = DirPath THEN Directories ELSE {<<>>})
    /\ save_frames \in BOOLEAN
    /\ save_overlays \in BOOLEAN
    /\ show_progress \in BOOLEAN
    /\ dirs_before \in {{}, {"output_dir"}}
    /\ fs_dirs = dirs_before
    /\ pc = "validate"
    /\ input_type = "unknown"
    /\ frame_files = <<>>
    /\ overlay_files = <<>>
    /\ image_files = <<>>
    /\ iterdir_sorted = TRUE
    /\ frames_read = 0
    /\ saved_frame_counter = 0
    /\ detected_poses = <<>>
    /\ estimator_calls = <<>>
    /\ frames_processed = 0
    /\ profiler_started = FALSE
    /\ progress_active = FALSE
    /\ capture_open = FALSE
    /\ progress_updates = 0
    /\ progress_failed = FALSE
    /\ failed_write = "none"
    /\ stats = NoStats
    /\ json_file = Absent
    /\ csv_file = Absent
    /\ error = "none"
    /\ exception = "none"
    /\ exit_code = -1
    /\ InitSampler
    /\ InitProcessor
    /\ InitRenderer

\* exceptions.py 4-31: PipeDetectError and its subclasses.
PipeDetectErrors ==
    {"PipeDetectError", "DetectionError", "ValidationError",
     "ConfigurationError", "FileProcessingError", "OutputError"}

\* A faulty variant: every exception re-raised as it is.
process_input_except_Reraise(e) == e

\* processor.py 133-136: what leaves process_input when e is raised inside
\* its try block. `except Exception` does not catch a KeyboardInterrupt; a
\* PipeDetectError is re-raised, anything else is replaced by a
\* PipeDetectError.
process_input_except(e) ==
    IF e = "KeyboardInterrupt" \/ e \in PipeDetectErrors THEN e
    ELSE "PipeDetectError"

\* An exception e is raised inside process_input and leaves it through the
\* handler of processor.py 133-136.
Raise(e) ==
    /\ pc' = "raised"
    /\ exception' = e
    /\ error' = process_input_except(e)

\* ----------------------------------------------------------- process_input
\* processor.py 76-78: validate_input_path, then get_input_type.
Validate ==
    /\ pc = "validate"
    /\ IF validate_input_path(input_path) # "none"
       THEN /\ Raise(validate_input_path(input_path))
            /\ UNCHANGED input_type
       ELSE IF get_input_type(input_path) = "ValidationError"
       THEN /\ Raise("ValidationError")
            /\ UNCHANGED input_type
       ELSE /\ input_type' = get_input_type(input_path)
            /\ pc' = "create_paths"
            /\ UNCHANGED <<error, exception>>
    /\ UNCHANGED <<inputVars, samplerVars, processorVars, rendererVars, fileVars, loopVars, progressVars, capture_open, failed_write,
                   profiler_started, stats, exit_code>>

\* A faulty variant: the frame and overlay directories left to be made when
\* the first file is written.
create_directories_Lazy(dirs) == dirs \cup {"output_dir"}

\* OutputPaths.create_directories: frames_dir, overlay_dir and the parent of
\* the json and csv files, each with parents=True, exist_ok=True.
create_directories(dirs) == dirs \cup {"frames_dir", "overlay_dir", "output_dir"}

\* processor.py 81-86: FileManager.create_output_paths.
CreateOutputPaths ==
    /\ pc = "create_paths"
    /\ fs_dirs' = create_directories(fs_dirs)
    /\ pc' = "start_profiler"
    /\ UNCHANGED <<inputVars, samplerVars, processorVars, rendererVars, frame_files, overlay_files, json_file, csv_file,
                   loopVars, progressVars, capture_open, failed_write, input_type, profiler_started, stats,
                   error, exception, exit_code>>

\* processor.py 92-103: profiler.start(), then the dispatch on input_type.
\* The run's side of it: the profiler counts as started and the processing
\* function of the input type is entered.
Dispatch ==
    /\ pc = "start_profiler"
    /\ profiler_started' = TRUE
    /\ pc' = CASE input_type = "video" -> "video_open"
               [] input_type = "image" -> "image"
               [] input_type = "directory" -> "dir_list"
    /\ UNCHANGED <<inputVars, processorVars, rendererVars, fileVars, loopVars,
                   progressVars, capture_open, failed_write, input_type, stats, error,
                   exception, exit_code>>

ProfilerStart ==
    /\ Dispatch
    /\ UNCHANGED samplerVars


\* ------------------------------------------------------------- FileManager
\* FileManager.save_frame / save_image_copy: frame_{id:06d}<ext> is written
\* into frames_dir. The log keeps the id the name is built from and, as a
\* ghost, which input (1-based read position) the bytes came from.
save_frame(log, frame_id, read_index) ==
    Append(log, [id |-> frame_id, read_index |-> read_index])

\* FileManager.save_overlay_frame: overlay_{id:06d}.jpg is written into
\* overlay_dir; plain tells whether the bytes are the unrendered frame.
save_overlay_frame(log, frame_id, read_index, plain) ==
    Append(log, [id |-> frame_id, read_index |-> read_index, plain |-> plain])

\* ProgressTracker.start / update / finish, called only when the processor
\* has a tracker (show_progress).
ProgressStart == progress_active' = show_progress
ProgressFinish == progress_active' = FALSE

\* A faulty variant: the capture left open.
Release_Never == UNCHANGED capture_open

\* processor.py 214-215: cap.release() in the `finally` of the frame loop.
Release == capture_open' = FALSE
\* A faulty variant: the tracker is never advanced.
ProgressUpdate_Never ==
    /\ UNCHANGED <<progress_updates, progress_failed, failed_write>>

ProgressUpdate ==
    /\ progress_updates' = IF show_progress THEN progress_updates + 1
                           ELSE progress_updates
    /\ UNCHANGED <<progress_failed, failed_write>>

\* processor.py 154-155, 211-212, 224-225, 237-238, 262-263, 266-267,
\* 282-283, 310-311, 314-315: a ProgressTracker call that raises. No call is
\* wrapped in a handler of its own, so the exception leaves the processing
\* function and process_input (133-136) re-raises it as PipeDetectError.
ProgressRaises ==
    /\ show_progress
    /\ progress_failed' = TRUE
    /\ Raise("Exception")
    /\ UNCHANGED failed_write

\* -------------------------------------------------------------- video mode
\* A faulty variant: the loop entered without the test of isOpened().
VideoOpen_Unchecked ==
    /\ pc = "video_open"
    /\ pc' = "video_loop"
    /\ ProgressStart
    /\ capture_open' = video.opens
    /\ UNCHANGED <<inputVars, samplerVars, processorVars, rendererVars, fileVars, loopVars,
                   progress_updates, progress_failed, failed_write, input_type,
                   profiler_started, stats, error, exception, exit_code>>

\* processor.py 148-162: the metadata probe, progress start, and the open.
VideoOpen ==
    /\ pc = "video_open"
    /\ IF ~video.opens
       THEN /\ Raise("FileProcessingError")
            /\ ProgressFinish
            /\ UNCHANGED capture_open
       ELSE /\ pc' = "video_loop"
            /\ ProgressStart
            /\ capture_open' = TRUE
            /\ UNCHANGED <<error, exception>>
    /\ UNCHANGED <<inputVars, samplerVars, processorVars, rendererVars, fileVars, loopVars, progress_updates, progress_failed, failed_write, input_type,
                   profiler_started, stats, exit_code>>

\* processor.py 154-155 with progress_tracker.start raising: the call is inside
\* the try of _process_video, whose finally (223-225) finishes the tracker.
VideoProgressStartFails ==
    /\ pc = "video_open"
    /\ ProgressRaises
    /\ ProgressFinish
    /\ UNCHANGED capture_open
    /\ UNCHANGED <<inputVars, samplerVars, processorVars, rendererVars, fileVars, loopVars, progress_updates, input_type,
                   profiler_started, stats, exit_code>>

\* A faulty variant: the result numbered by the count of frames matched.
VideoResultFrameId_Matched(counter, results) == Len(results)

\* processor.py 187: the frame_id given to the PoseResult of the current frame.
VideoResultFrameId(counter, results) == counter

\* A faulty variant: video results stamped 0.0 like those of an image.
VideoPoseResult_Unstamped(counter, results, read_index, landmarks) ==
    [frame_id |-> VideoResultFrameId(counter, results),
     source_file |-> input_path.name,
     read_index |-> read_index,
     timestamp |-> Fraction(0, 1),
     landmarks |-> landmarks,
     confidence |-> Confidence(landmarks)]

\* processor.py 186-192: the PoseResult of a frame (read_index is a ghost).
VideoPoseResult(counter, results, read_index, landmarks) ==
    [frame_id |-> VideoResultFrameId(counter, results),
     source_file |-> input_path.name,
     read_index |-> read_index,
     timestamp |-> Fraction(counter, video.fps),
     landmarks |-> landmarks,
     confidence |-> Confidence(landmarks)]

\* processor.py 214: saved_frame_counter += 1.
NextFrameCounter(counter) == counter + 1

\* A faulty variant: the raw frame kept only for a frame with a pose.
VideoSavesFrame_OnlyDetected(est) == save_frames /\ est = "pose"

\* processor.py 174: whether the raw frame is written (before detection).
VideoSavesFrame(est) == save_frames

\* A faulty variant: no plain overlay for a frame without a pose.
VideoSavesOverlay_OnlyDetected(est) == save_overlays /\ est = "pose"

\* processor.py 196-209: whether an overlay file is written for the frame.
VideoSavesOverlay(est) == save_overlays

\* processor.py 167-175 with a failing cv2.imwrite: OutputError.
VideoFrameSaveFails ==
    /\ save_frames
    /\ frames_read' = frames_read + 1
    /\ frames_processed' = frames_processed + 1
    /\ Raise("OutputError")
    /\ failed_write' = "frame"
    /\ ProgressFinish
    /\ Release
    /\ UNCHANGED <<fileVars, image_files, iterdir_sorted, saved_frame_counter, detected_poses,
                   estimator_calls, progress_updates, progress_failed>>

\* A faulty variant: a frame whose detection raises is skipped and the loop
\* goes on.
VideoFrameEstimatorRaises_Skips ==
    /\ frames_read' = frames_read + 1
    /\ frames_processed' = frames_processed + 1
    /\ estimator_calls' = Append(estimator_calls, Call(frames_read + 1, "raise"))
    /\ saved_frame_counter' = saved_frame_counter + 1
    /\ UNCHANGED <<pc, error, exception, progress_active, capture_open, fileVars, image_files,
                   iterdir_sorted, detected_poses, progress_updates,
                   progress_failed, failed_write>>

\* processor.py 167-178 with detect_pose raising: DetectionError.
VideoFrameEstimatorRaises ==
    /\ frames_read' = frames_read + 1
    /\ frames_processed' = frames_processed + 1
    /\ frame_files' = IF VideoSavesFrame("raise")
                      THEN save_frame(frame_files, saved_frame_counter, frames_read + 1)
                      ELSE frame_files
    /\ estimator_calls' = Append(estimator_calls, Call(frames_read + 1, "raise"))
    /\ Raise("DetectionError")
    /\ ProgressFinish
    /\ Release
    /\ UNCHANGED <<fs_dirs, overlay_files, json_file, csv_file, image_files, iterdir_sorted,
                   saved_frame_counter, detected_poses, progress_updates, progress_failed, failed_write>>

\* processor.py 180-192 with the PoseResult not constructed: an empty
\* landmark list (182) or a reported frame rate of 0 (188) raises
\* ZeroDivisionError, a confidence out of range raises the validator's
\* ValueError; process_input (133-136) re-raises either as PipeDetectError.
\* No result is recorded.
VideoFramePoseResultFails(lm) ==
    /\ video.fps = 0 \/ ~PoseResultConstructs(lm)
    /\ frames_read' = frames_read + 1
    /\ frames_processed' = frames_processed + 1
    /\ frame_files' = IF VideoSavesFrame("pose")
                      THEN save_frame(frame_files, saved_frame_counter, frames_read + 1)
                      ELSE frame_files
    /\ estimator_calls' = Append(estimator_calls, PoseCall(frames_read + 1, lm))
    /\ Raise(IF Len(lm) # 0 /\ video.fps # 0
             THEN "pydantic.ValidationError" ELSE "ZeroDivisionError")
    /\ ProgressFinish
    /\ Release
    /\ UNCHANGED <<fs_dirs, overlay_files, json_file, csv_file, image_files, iterdir_sorted,
                   saved_frame_counter, detected_poses, progress_updates, progress_failed, failed_write>>

\* processor.py 167-209 with the overlay's cv2.imwrite failing: OutputError.
VideoFrameOverlayFails(est, lm) ==
    /\ est = "pose" => video.fps # 0 /\ PoseResultConstructs(lm)
    /\ VideoSavesOverlay(est)
    /\ frames_read' = frames_read + 1
    /\ frames_processed' = frames_processed + 1
    /\ frame_files' = IF VideoSavesFrame(est)
                      THEN save_frame(frame_files, saved_frame_counter, frames_read + 1)
                      ELSE frame_files
    /\ estimator_calls' =
         Append(estimator_calls,
                IF est = "pose" THEN PoseCall(frames_read + 1, lm)
                ELSE Call(frames_read + 1, est))
    /\ detected_poses' =
         IF est = "pose"
         THEN Append(detected_poses,
                     VideoPoseResult(saved_frame_counter, detected_poses,
                                     frames_read + 1, lm))
         ELSE detected_poses
    /\ Raise("OutputError")
    /\ failed_write' = "overlay"
    /\ ProgressFinish
    /\ Release
    /\ UNCHANGED <<fs_dirs, overlay_files, json_file, csv_file, image_files, iterdir_sorted,
                   saved_frame_counter, progress_updates, progress_failed>>

\* processor.py 167-214: one whole iteration, every write succeeding.
VideoFrameDone(est, lm) ==
    /\ est = "pose" => video.fps # 0 /\ PoseResultConstructs(lm)
    /\ frames_read' = frames_read + 1
    /\ frames_processed' = frames_processed + 1
    /\ frame_files' = IF VideoSavesFrame(est)
                      THEN save_frame(frame_files, saved_frame_counter, frames_read + 1)
                      ELSE frame_files
    /\ estimator_calls' =
         Append(estimator_calls,
                IF est = "pose" THEN PoseCall(frames_read + 1, lm)
                ELSE Call(frames_read + 1, est))
    /\ detected_poses' =
         IF est = "pose"
         THEN Append(detected_poses,
                     VideoPoseResult(saved_frame_counter, detected_poses,
                                     frames_read + 1, lm))
         ELSE detected_poses
    /\ overlay_files' =
         IF VideoSavesOverlay(est)
         THEN save_overlay_frame(overlay_files, saved_frame_counter,
                                 frames_read + 1, est = "none")
         ELSE overlay_files
    /\ ProgressUpdate
    /\ saved_frame_counter' = NextFrameCounter(saved_frame_counter)
    /\ UNCHANGED <<fs_dirs, json_file, csv_file, image_files, iterdir_sorted, progress_active, capture_open,
                   pc, error, exception>>

\* processor.py 167-212 with progress_tracker.update raising (211-212): the
\* frame is saved, detected and overlaid, the counter of 214 is not reached.
VideoFrameProgressFails(est, lm) ==
    /\ est = "pose" => video.fps # 0 /\ PoseResultConstructs(lm)
    /\ frames_read' = frames_read + 1
    /\ frames_processed' = frames_processed + 1
    /\ frame_files' = IF VideoSavesFrame(est)
                      THEN save_frame(frame_files, saved_frame_counter, frames_read + 1)
                      ELSE frame_files
    /\ estimator_calls' =
         Append(estimator_calls,
                IF est = "pose" THEN PoseCall(frames_read + 1, lm)
                ELSE Call(frames_read + 1, est))
    /\ detected_poses' =
         IF est = "pose"
         THEN Append(detected_poses,
                     VideoPoseResult(saved_frame_counter, detected_poses,
                                     frames_read + 1, lm))
         ELSE detected_poses
    /\ overlay_files' =
         IF VideoSavesOverlay(est)
         THEN save_overlay_frame(overlay_files, saved_frame_counter,
                                 frames_read + 1, est = "none")
         ELSE overlay_files
    /\ ProgressRaises
    /\ ProgressFinish
    /\ Release
    /\ UNCHANGED <<fs_dirs, json_file, csv_file, image_files, iterdir_sorted,
                   saved_frame_counter, progress_updates>>

\* One iteration of the while loop of _process_video on a frame that was read.
VideoFrame ==
    /\ pc = "video_loop"
    /\ frames_read < video.nframes
    /\ \/ VideoFrameSaveFails
       \/ VideoFrameEstimatorRaises
       \/ \E lm \in EstimatorLandmarks(frames_read + 1) :
             VideoFramePoseResultFails(lm)
       \/ \E est \in {"pose", "none"} :
             \E lm \in EstimatorReturns(est, frames_read + 1) :
                VideoFrameOverlayFails(est, lm)
       \/ \E est \in {"pose", "none"} :
             \E lm \in EstimatorReturns(est, frames_read + 1) :
                VideoFrameDone(est, lm)
       \/ \E est \in {"pose", "none"} :
             \E lm \in EstimatorReturns(est, frames_read + 1) :
                VideoFrameProgressFails(est, lm)
    /\ UNCHANGED <<inputVars, samplerVars, processorVars, rendererVars, input_type, profiler_started, stats, exit_code>>

\* processor.py 167-169, 216-225: read() reports end of stream; the capture
\* is released, the results are yielded and the tracker is finished.
VideoEnd ==
    /\ pc = "video_loop"
    /\ frames_read = video.nframes
    /\ ProgressFinish
    /\ Release
    /\ pc' = "stop_profiler"
    /\ UNCHANGED <<inputVars, samplerVars, processorVars, rendererVars, fileVars, loopVars, progress_updates, progress_failed, failed_write, input_type,
                   profiler_started, stats, error, exception, exit_code>>


\* ---------------------------------------------------------- directory mode
\* processor.py 223-225 with progress_tracker.finish raising in the finally of
\* _process_video, at the end of the stream.
VideoProgressFinishFails ==
    /\ pc = "video_loop"
    /\ frames_read = video.nframes
    /\ ProgressRaises
    /\ Release
    /\ UNCHANGED <<inputVars, samplerVars, processorVars, rendererVars, fileVars, loopVars, progress_active,
                   progress_updates, input_type, profiler_started, stats,
                   exit_code>>

\* processor.py 280-286: the image list, then progress start. iterdir()
\* yields the entries in some order; an empty list is
\* validate_image_directory's ValidationError.
DirList ==
    /\ pc = "dir_list"
    /\ \E yielded \in Enumerations(listing) :
         /\ image_files' = validate_image_directory(yielded)
         /\ iterdir_sorted' = (FilterImages(yielded) = Sorted(FilterImages(yielded)))
         /\ IF validate_image_directory(yielded) = <<>>
            THEN /\ Raise("ValidationError")
                 /\ UNCHANGED <<progress_active, capture_open>>
            ELSE /\ pc' = "dir_loop"
                 /\ ProgressStart
                 /\ UNCHANGED capture_open
                 /\ UNCHANGED <<error, exception>>
    /\ UNCHANGED <<inputVars, samplerVars, processorVars, rendererVars, fileVars, frames_read, saved_frame_counter,
                   detected_poses, estimator_calls, frames_processed,
                   progress_updates, progress_failed, failed_write, input_type, profiler_started, stats,
                   exit_code>>

\* processor.py 280-283 with progress_tracker.start raising: the directory has
\* been validated (280); the call is before the try, so nothing is finished.
DirProgressStartFails ==
    /\ pc = "dir_list"
    /\ \E yielded \in Enumerations(listing) :
         /\ validate_image_directory(yielded) # <<>>
         /\ image_files' = validate_image_directory(yielded)
         /\ iterdir_sorted' = (FilterImages(yielded) = Sorted(FilterImages(yielded)))
    /\ ProgressRaises
    /\ UNCHANGED <<inputVars, samplerVars, processorVars, rendererVars, fileVars, frames_read, saved_frame_counter,
                   detected_poses, estimator_calls, frames_processed,
                   progress_active, capture_open, progress_updates, input_type,
                   profiler_started, stats, exit_code>>

\* A faulty variant: the result numbered by the emitted counter.
DirResultFrameId_Emitted(index, emitted) == emitted

\* processor.py 287-288: the frame_id handed to detect_single_image for the
\* image at 0-based position `index` of the list, `emitted` files so far.
DirResultFrameId(index, emitted) == index

\* A faulty variant: image results numbered from 1.
ImagePoseResult_FromOne(image_path, frame_id, read_index, landmarks) ==
    [frame_id |-> frame_id + 1, source_file |-> image_path,
     read_index |-> read_index,
     timestamp |-> Fraction(0, 1),
     landmarks |-> landmarks,
     confidence |-> Confidence(landmarks)]

\* pose_detector.py 58-64: the PoseResult of an image (read_index is a ghost).
ImagePoseResult(image_path, frame_id, read_index, landmarks) ==
    [frame_id |-> frame_id, source_file |-> image_path, read_index |-> read_index,
     timestamp |-> Fraction(0, 1),
     landmarks |-> landmarks,
     confidence |-> Confidence(landmarks)]

\* A faulty variant: the files named by the position in the list.
DirEmittedId_InputIndex(index, emitted) == index

\* processor.py 294, 304: the id the emitted files of an image are named by.
DirEmittedId(index, emitted) == emitted

\* processor.py 307: saved_frame_counter += 1, for a detected image only.
NextEmittedCounter(counter) == counter + 1

\* pose_detector.py 45-47: cv2.imread returns None: FileProcessingError.
\* The Estimator is not reached and the frame is not counted.
ImageUnreadable ==
    /\ Raise("FileProcessingError")
    /\ ProgressFinish
    /\ UNCHANGED capture_open
    /\ UNCHANGED <<fileVars, loopVars, progress_updates, progress_failed, failed_write>>

\* pose_detector.py 50, 69-72: detect_pose raises: DetectionError.
ImageEstimatorRaises(image_path) ==
    /\ estimator_calls' = Append(estimator_calls, Call(image_path, "raise"))
    /\ Raise("DetectionError")
    /\ ProgressFinish
    /\ UNCHANGED capture_open
    /\ UNCHANGED <<fileVars, image_files, iterdir_sorted, frames_read, saved_frame_counter,
                   detected_poses, frames_processed, progress_updates, progress_failed, failed_write>>

\* pose_detector.py 56-64, 69-72 with the PoseResult not constructed: an
\* empty landmark list raises ZeroDivisionError, a confidence out of range
\* the validator's ValueError; detect_single_image re-raises either as
\* DetectionError, before the frame is counted.
ImagePoseResultFails(image_path, lm) ==
    /\ ~PoseResultConstructs(lm)
    /\ estimator_calls' = Append(estimator_calls, PoseCall(image_path, lm))
    /\ Raise("DetectionError")
    /\ ProgressFinish
    /\ UNCHANGED capture_open
    /\ UNCHANGED <<fileVars, image_files, iterdir_sorted, frames_read, saved_frame_counter,
                   detected_poses, frames_processed, progress_updates, progress_failed, failed_write>>

\* processor.py 246-247 / 293-294 with shutil.copy2 failing:
\* save_image_copy raises FileProcessingError.
ImageCopyFails(image_path, lm) ==
    /\ save_frames
    /\ PoseResultConstructs(lm)
    /\ estimator_calls' = Append(estimator_calls, PoseCall(image_path, lm))
    /\ frames_processed' = frames_processed + 1
    /\ Raise("FileProcessingError")
    /\ failed_write' = "copy"
    /\ ProgressFinish
    /\ UNCHANGED capture_open
    /\ UNCHANGED <<fileVars, image_files, iterdir_sorted, frames_read, saved_frame_counter,
                   detected_poses, progress_updates, progress_failed>>

\* processor.py 250-258 / 297-305 with the overlay's cv2.imwrite failing:
\* OutputError, after the copy was written.
ImageOverlayFails(image_path, emitted_id, lm) ==
    /\ save_overlays
    /\ PoseResultConstructs(lm)
    /\ estimator_calls' = Append(estimator_calls, PoseCall(image_path, lm))
    /\ frames_processed' = frames_processed + 1
    /\ frame_files' = IF save_frames
                      THEN save_frame(frame_files, emitted_id, frames_read + 1)
                      ELSE frame_files
    /\ Raise("OutputError")
    /\ failed_write' = "overlay"
    /\ ProgressFinish
    /\ UNCHANGED capture_open
    /\ UNCHANGED <<fs_dirs, overlay_files, json_file, csv_file, image_files, iterdir_sorted,
                   frames_read, saved_frame_counter, detected_poses,
                   progress_updates, progress_failed>>

\* processor.py 288-311: an image with a pose, every write succeeding. The
\* second cv2.imread (298) reads the file detect_single_image has just read,
\* so it returns an image.
ImageDetected(image_path, frame_id, emitted_id, lm) ==
    /\ PoseResultConstructs(lm)
    /\ estimator_calls' = Append(estimator_calls, PoseCall(image_path, lm))
    /\ frames_processed' = frames_processed + 1
    /\ frame_files' = IF save_frames
                      THEN save_frame(frame_files, emitted_id, frames_read + 1)
                      ELSE frame_files
    /\ overlay_files' = IF save_overlays
                        THEN save_overlay_frame(overlay_files, emitted_id,
                                                frames_read + 1, FALSE)
                        ELSE overlay_files
    /\ saved_frame_counter' = NextEmittedCounter(saved_frame_counter)
    /\ detected_poses' = Append(detected_poses,
                                ImagePoseResult(image_path, frame_id,
                                                frames_read + 1, lm))
    /\ ProgressUpdate
    /\ frames_read' = frames_read + 1
    /\ UNCHANGED <<fs_dirs, json_file, csv_file, image_files, iterdir_sorted, error, exception>>

\* processor.py 288-291, 310-311: an image without a pose: nothing is written.
ImageNotDetected(image_path) ==
    /\ estimator_calls' = Append(estimator_calls, Call(image_path, "none"))
    /\ frames_processed' = frames_processed + 1
    /\ ProgressUpdate
    /\ frames_read' = frames_read + 1
    /\ UNCHANGED <<fileVars, image_files, iterdir_sorted, saved_frame_counter, detected_poses,
                   error, exception>>

\* processor.py 240-261, 288-308: everything an image does to the run before
\* the tracker is updated, with a pose (est = "pose") or without one.
ImageWork(image_path, frame_id, emitted_id, est, lm) ==
    /\ est = "pose" => PoseResultConstructs(lm)
    /\ estimator_calls' =
         Append(estimator_calls,
                IF est = "pose" THEN PoseCall(image_path, lm)
                ELSE Call(image_path, est))
    /\ frames_processed' = frames_processed + 1
    /\ frame_files' = IF est = "pose" /\ save_frames
                      THEN save_frame(frame_files, emitted_id, frames_read + 1)
                      ELSE frame_files
    /\ overlay_files' = IF est = "pose" /\ save_overlays
                        THEN save_overlay_frame(overlay_files, emitted_id,
                                                frames_read + 1, FALSE)
                        ELSE overlay_files
    /\ saved_frame_counter' = IF est = "pose"
                              THEN NextEmittedCounter(saved_frame_counter)
                              ELSE saved_frame_counter
    /\ detected_poses' =
         IF est = "pose"
         THEN Append(detected_poses,
                     ImagePoseResult(image_path, frame_id, frames_read + 1, lm))
         ELSE detected_poses
    /\ frames_read' = frames_read + 1
    /\ UNCHANGED <<fs_dirs, json_file, csv_file, image_files, iterdir_sorted>>

\* processor.py 262-263, 310-311 with progress_tracker.update raising after
\* the image's work: the finally (265-267, 313-315) finishes the tracker.
ImageProgressUpdateFails(image_path, frame_id, emitted_id, est, lm) ==
    /\ ImageWork(image_path, frame_id, emitted_id, est, lm)
    /\ ProgressRaises
    /\ ProgressFinish
    /\ UNCHANGED capture_open
    /\ UNCHANGED progress_updates

\* processor.py 265-267 with progress_tracker.finish raising in the finally of
\* _process_single_image, after the image's work and its update.
ImageProgressFinishFails(image_path, est, lm) ==
    /\ ImageWork(image_path, 0, 0, est, lm)
    /\ ProgressRaises
    /\ progress_updates' = progress_updates + 1
    /\ UNCHANGED <<progress_active, capture_open>>

\* processor.py 237-238 with progress_tracker.start raising: the call is
\* before the try of _process_single_image, so nothing is finished.
ImageProgressStartFails ==
    /\ ProgressRaises
    /\ UNCHANGED <<fileVars, loopVars, progress_active, capture_open, progress_updates>>

\* One iteration of the for loop of _process_image_directory.
DirImage ==
    /\ pc = "dir_loop"
    /\ frames_read < Len(image_files)
    /\ LET image_path == image_files[frames_read + 1]
           frame_id == DirResultFrameId(frames_read, saved_frame_counter)
           emitted_id == DirEmittedId(frames_read, saved_frame_counter)
           poses == EstimatorLandmarks(frames_read + 1)
       IN  \/ ImageUnreadable
           \/ ImageEstimatorRaises(image_path)
           \/ \E lm \in poses : ImagePoseResultFails(image_path, lm)
           \/ \E lm \in poses : ImageCopyFails(image_path, lm)
           \/ \E lm \in poses : ImageOverlayFails(image_path, emitted_id, lm)
           \/ /\ \E lm \in poses :
                    ImageDetected(image_path, frame_id, emitted_id, lm)
              /\ UNCHANGED <<pc, progress_active, capture_open>>
           \/ /\ ImageNotDetected(image_path)
              /\ UNCHANGED <<pc, progress_active, capture_open>>
           \/ \E est \in {"pose", "none"} :
                 \E lm \in EstimatorReturns(est, frames_read + 1) :
                    ImageProgressUpdateFails(image_path, frame_id, emitted_id,
                                             est, lm)
    /\ UNCHANGED <<inputVars, samplerVars, processorVars, rendererVars, input_type, profiler_started, stats, exit_code>>

\* processor.py 287, 313-315: the list is exhausted; the tracker is finished.
DirEnd ==
    /\ pc = "dir_loop"
    /\ frames_read = Len(image_files)
    /\ ProgressFinish
    /\ UNCHANGED capture_open
    /\ pc' = "stop_profiler"
    /\ UNCHANGED <<inputVars, samplerVars, processorVars, rendererVars, fileVars, loopVars, progress_updates, progress_failed, failed_write, input_type,
                   profiler_started, stats, error, exception, exit_code>>

\* processor.py 313-315 with progress_tracker.finish raising in the finally of
\* _process_image_directory, after the last image.
DirProgressFinishFails ==
    /\ pc = "dir_loop"
    /\ frames_read = Len(image_files)
    /\ ProgressRaises
    /\ UNCHANGED <<inputVars, samplerVars, processorVars, rendererVars, fileVars, loopVars, progress_active, capture_open,
                   progress_updates, input_type, profiler_started, stats,
                   exit_code>>

\* ------------------------------------------------------- single-image mode
\* processor.py 237-267: _process_single_image, whole: one image, frame_id 0
\* (detect_single_image's default) and files named by id 0.
SingleImage ==
    /\ pc = "image"
    /\ \/ ImageUnreadable
       \/ ImageEstimatorRaises(input_path.name)
       \/ \E lm \in EstimatorLandmarks(1) :
             ImagePoseResultFails(input_path.name, lm)
       \/ \E lm \in EstimatorLandmarks(1) : ImageCopyFails(input_path.name, lm)
       \/ \E lm \in EstimatorLandmarks(1) :
             ImageOverlayFails(input_path.name, 0, lm)
       \/ /\ \E lm \in EstimatorLandmarks(1) :
                ImageDetected(input_path.name, 0, 0, lm)
          /\ ProgressFinish
          /\ UNCHANGED capture_open
          /\ pc' = "stop_profiler"
       \/ /\ ImageNotDetected(input_path.name)
          /\ ProgressFinish
          /\ UNCHANGED capture_open
          /\ pc' = "stop_profiler"
       \/ ImageProgressStartFails
       \/ \E est \in {"pose", "none"} :
             \E lm \in EstimatorReturns(est, 1) :
                ImageProgressUpdateFails(input_path.name, 0, 0, est, lm)
       \/ \E est \in {"pose", "none"} :
             \E lm \in EstimatorReturns(est, 1) :
                ImageProgressFinishFails(input_path.name, est, lm)
    /\ UNCHANGED <<inputVars, samplerVars, processorVars, rendererVars, input_type, profiler_started, stats, exit_code>>


\* ------------------------------------------------- statistics and exporting
\* A faulty variant: every frame counted as processed.
ProcessingStats_AllProcessed(total, results) ==
    [total_frames |-> total,
     processed_frames |-> total,
     failed_frames |-> 0]

\* processor.py 110-118: the ProcessingStats built from the profiler's frame
\* count and the results.
ProcessingStats(total, results) ==
    [total_frames |-> total,
     processed_frames |-> Len(results),
     failed_frames |-> total - Len(results)]

\* processor.py 106-118: profiler.stop() and the statistics.
ProfilerStop ==
    /\ pc = "stop_profiler"
    /\ profiler_started' = FALSE
    /\ stats' = ProcessingStats(frames_processed, detected_poses)
    /\ pc' = "export"
    /\ UNCHANGED <<inputVars, samplerVars, processorVars, rendererVars, fileVars, loopVars, progressVars, capture_open, failed_write, input_type,
                   error, exception, exit_code>>

\* exporters.py 61-79: one entry of "results" per PoseResult, in order.
ResultDicts(results) ==
    [i \in 1..Len(results) |->
        [frame_id |-> results[i].frame_id,
         timestamp |-> results[i].timestamp,
         confidence |-> results[i].confidence,
         source_file |-> results[i].source_file,
         landmarks |-> results[i].landmarks]]

\* A faulty variant: the JSON exporter returning early on no results.
JSONExporter_export_SkipEmpty(results, st, old) ==
    IF results = <<>> THEN old
    ELSE [state |-> "written", metadata |-> st, results |-> ResultDicts(results)]

\* exporters.py 34-86: JSONExporter.export, the file it leaves when the write
\* succeeds: written for every results list.
JSONExporter_export(results, st, old) ==
    [state |-> "written", metadata |-> st, results |-> ResultDicts(results)]

\* exporters.py 117, 135: the number of landmark slots of a CSV row.
LandmarkSlots == 33

\* exporters.py 118-121: the five header names of landmark slot i,
\* landmark_{i}_x and so on.
CSVSlotHeader(i) ==
    << <<"landmark", i, "x">>, <<"landmark", i, "y">>, <<"landmark", i, "z">>,
       <<"landmark", i, "visibility">>, <<"landmark", i, "presence">> >>

\* exporters.py 114-121: the header row.
RECURSIVE CSVHeaderFrom(_)
CSVHeaderFrom(i) ==
    IF i >= LandmarkSlots THEN <<>> ELSE CSVSlotHeader(i) \o CSVHeaderFrom(i + 1)

CSVHeader ==
    << <<"frame_id">>, <<"timestamp">>, <<"confidence">>, <<"source_file">> >>
    \o CSVHeaderFrom(0)

\* A faulty variant: a slot without a landmark left out of the row.
CSVSlotCells_Omitted(landmarks, i) ==
    IF i < Len(landmarks)
    THEN << landmarks[i + 1].x, landmarks[i + 1].y, landmarks[i + 1].z,
            landmarks[i + 1].visibility, landmarks[i + 1].presence >>
    ELSE <<>>

\* exporters.py 136-140: the five cells of landmark slot i (0-based) of a row.
CSVSlotCells(landmarks, i) ==
    IF i < Len(landmarks)
    THEN << landmarks[i + 1].x, landmarks[i + 1].y, landmarks[i + 1].z,
            landmarks[i + 1].visibility, landmarks[i + 1].presence >>
    ELSE <<0, 0, 0, 0, 0>>

\* exporters.py 135-140: the loop over range(33).
RECURSIVE CSVLandmarkCells(_, _)
CSVLandmarkCells(landmarks, i) ==
    IF i >= LandmarkSlots THEN <<>>
    ELSE CSVSlotCells(landmarks, i) \o CSVLandmarkCells(landmarks, i + 1)

\* exporters.py 127-142: the row of one result.
CSVRow(result) ==
    <<result.frame_id, result.timestamp, result.confidence, result.source_file>>
    \o CSVLandmarkCells(result.landmarks, 0)

\* exporters.py 95-144: CSVExporter.export, the file it leaves when the write
\* succeeds: an empty results list returns before the file is opened.
CSVExporter_export(results, st, old) ==
    IF results = <<>> THEN old
    ELSE [state |-> "written",
          header |-> CSVHeader,
          rows |-> [i \in 1..Len(results) |-> CSVRow(results[i])]]

\* A write that failed after open(): the file is missing or incomplete.
FailedWrites(old) == {old, [state |-> "partial"]}

\* processor.py 330: whether _export_results calls the exporters at all.
ExportsResults(results) == results # <<>>

\* processor.py 121, 328-347: _export_results.
ExportResults ==
    /\ pc = "export"
    /\ IF ExportsResults(detected_poses)
       THEN \/ /\ json_file' = JSONExporter_export(detected_poses, stats, json_file)
               /\ csv_file' = CSVExporter_export(detected_poses, stats, csv_file)
               /\ pc' = "cleanup"
               /\ UNCHANGED <<error, exception, failed_write>>
            \/ /\ json_file' \in FailedWrites(json_file)
               /\ Raise("OutputError")
               /\ failed_write' = "json"
               /\ UNCHANGED csv_file
            \/ /\ json_file' = JSONExporter_export(detected_poses, stats, json_file)
               /\ csv_file' \in FailedWrites(csv_file)
               /\ Raise("OutputError")
               /\ failed_write' = "csv"
       ELSE /\ pc' = "cleanup"
            /\ UNCHANGED <<json_file, csv_file, error, exception, failed_write>>
    /\ UNCHANGED <<inputVars, samplerVars, processorVars, rendererVars, fs_dirs, frame_files, overlay_files, loopVars,
                   progressVars, capture_open, input_type, profiler_started, stats, exit_code>>

\* file_manager.py 172: whether the loop calls rmdir on a directory: it
\* exists and holds no file.
IsRemoved(dir, dirs, files) == dir \in dirs /\ files = <<>>

\* file_manager.py 169-177: frames_dir, then overlay_dir, is removed when it
\* exists and holds no file. `fails` is the directory whose rmdir raises
\* ("none" when none does): the handler (176-177) logs a warning and the loop
\* is over, with that directory and any later one left as they are.
cleanup_empty_directories(dirs, frames, overlays, fails) ==
    IF fails = "frames_dir" THEN dirs
    ELSE (dirs \ (IF IsRemoved("frames_dir", dirs, frames)
                  THEN {"frames_dir"} ELSE {}))
               \ (IF IsRemoved("overlay_dir", dirs, overlays) /\ fails = "none"
                  THEN {"overlay_dir"} ELSE {})

\* processor.py 124-131: cleanup, then process_input returns the statistics.
Cleanup ==
    /\ pc = "cleanup"
    /\ \E fails \in {"none", "frames_dir", "overlay_dir"} :
          /\ fails = "frames_dir" => IsRemoved("frames_dir", fs_dirs, frame_files)
          /\ fails = "overlay_dir" =>
                IsRemoved("overlay_dir", fs_dirs, overlay_files)
          /\ fs_dirs' = cleanup_empty_directories(fs_dirs, frame_files,
                                                  overlay_files, fails)
    /\ pc' = "returned"
    /\ UNCHANGED <<inputVars, samplerVars, processorVars, rendererVars, frame_files, overlay_files, json_file, csv_file,
                   loopVars, progressVars, capture_open, failed_write, input_type, profiler_started, stats,
                   error, exception, exit_code>>

\* ------------------------------------------------------------ interruption
\* A KeyboardInterrupt delivered while the loop is between two frames. It is
\* no Exception, so processor.py 133 does not catch it: the finally blocks
\* run (216-217, 223-225 / 313-315) and it leaves process_input.
Interrupt ==
    /\ pc \in {"video_loop", "dir_loop"}
    /\ Raise("KeyboardInterrupt")
    /\ ProgressFinish
    /\ IF pc = "video_loop" THEN Release ELSE UNCHANGED capture_open
    /\ UNCHANGED <<inputVars, samplerVars, processorVars, rendererVars, fileVars, loopVars, progress_updates, progress_failed, failed_write, input_type,
                   profiler_started, stats, exit_code>>

\* ------------------------------------------------------------------- main
\* A faulty variant: the quotient without the guard on total_frames.
success_rate_Unguarded(st) == Fraction(st.processed_frames, st.total_frames)

\* models.py 88-93: ProcessingStats.success_rate.
success_rate(st) ==
    IF st.total_frames = 0 THEN Fraction(0, 1)
    ELSE Fraction(st.processed_frames, st.total_frames)

\* main.py 168: stats.success_rate < 0.5.
LowSuccessRate(st) == FractionLess(success_rate(st), Fraction(1, 2))

\* main.py 167-182: the exit status of the command.
ExitCode(err, st) ==
    IF err = "KeyboardInterrupt" THEN 130
    ELSE IF err # "none" THEN 1
    ELSE IF LowSuccessRate(st) THEN 1
    ELSE 0

\* A faulty variant: the handle closed only when process_input returned.
PoseProcessor_exit_OnlyOnReturn(handle, err) ==
    IF err = "none" THEN "closed" ELSE handle

\* processor.py 349-360, pose_detector.py 183-186, mediapipe_wrapper.py
\* 121-125: __exit__ calls close whatever exception (exc_type) leaves the
\* with-scope; close reaches self._pose.close().
PoseProcessor_exit(handle, err) == "closed"

\* main.py 150-182: the with-scope ends, by return or by exception, and the
\* command exits with its status.
MainExit ==
    /\ pc \in {"returned", "raised"}
    /\ pose_handle' = PoseProcessor_exit(pose_handle, error)
    /\ exit_code' = ExitCode(error, stats)
    /\ pc' = "exited"
    /\ UNCHANGED <<inputVars, samplerVars, run, frames_at_start, rendererVars, fileVars,
                   loopVars, progressVars, capture_open, failed_write, input_type, profiler_started, stats,
                   error, exception>>

\* ------------------------------------------------------------ a later run
\* processor.py 58-136 called again on the same PoseProcessor, inside the same
\* with-scope, on the same input, at a later second: the paths of the run
\* (file_manager.py 46-61) carry a new timestamp, the locals of the call are
\* new, and the objects made in __init__ (49-54) are the ones of the first
\* call: the profiler and its metrics (performance.py 45), the tracker, the
\* detector.
SecondRun ==
    /\ pc \in {"returned", "raised"}
    /\ run = "first"
    /\ run' = "second"
    /\ frames_at_start' = frames_processed
    /\ pc' = "validate"
    /\ input_type' = "unknown"
    /\ fs_dirs' = fs_dirs \cap {"output_dir"}
    /\ frame_files' = <<>>
    /\ overlay_files' = <<>>
    /\ json_file' = Absent
    /\ csv_file' = Absent
    /\ image_files' = <<>>
    /\ iterdir_sorted' = TRUE
    /\ frames_read' = 0
    /\ saved_frame_counter' = 0
    /\ detected_poses' = <<>>
    /\ estimator_calls' = <<>>
    /\ progress_updates' = 0
    /\ progress_failed' = FALSE
    /\ failed_write' = "none"
    /\ stats' = NoStats
    /\ error' = "none"
    /\ exception' = "none"
    /\ UNCHANGED <<inputVars, samplerVars, pose_handle, rendererVars, frames_processed,
                   progress_active, capture_open, profiler_started, exit_code>>

Next ==
    \/ Validate
    \/ CreateOutputPaths
    \/ ProfilerStart
    \/ VideoOpen
    \/ VideoProgressStartFails
    \/ VideoFrame
    \/ VideoEnd
    \/ VideoProgressFinishFails
    \/ DirList
    \/ DirProgressStartFails
    \/ DirImage
    \/ DirEnd
    \/ DirProgressFinishFails
    \/ SingleImage
    \/ ProfilerStop
    \/ ExportResults
    \/ Cleanup
    \/ Interrupt
    \/ SecondRun
    \/ MainExit

Spec == Init /\ [][Next]_vars


\* ------------------------------------------------- the exporters on their own
\* JSONExporter.export and CSVExporter.export called directly, any number of
\* times, on result lists of every length from 0 up. detected_poses holds the
\* list of the last call, stats its statistics, pc which exporter it was.
RECURSIVE Increasing(_, _)
Increasing(from, to) ==
    IF from > to THEN {<<>>}
    ELSE Increasing(from + 1, to)
         \cup {<<from>> \o s : s \in Increasing(from + 1, to)}

\* The number of landmarks of the result with a given frame_id in a direct
\* call: the canonical 33, fewer, more, and none at all.
ApiLandmarkCount(frame_id) ==
    CASE frame_id = 0 -> LandmarkSlots
      [] frame_id = 1 -> 2
      [] frame_id = 2 -> LandmarkSlots + 2
      [] frame_id = 3 -> 0
      [] OTHER -> LandmarkSlots - 1

ApiLandmarks(frame_id) ==
    [i \in 1..ApiLandmarkCount(frame_id) |->
        LandmarkPoint(i - 1, (37 * (i + frame_id)) % (One + 1),
                             (53 * (i + frame_id)) % (One + 1))]

\* A PoseResult as a caller of the exporters constructs it, with a
\* confidence of its own choice.
ApiPoseResult(frame_id) ==
    [frame_id |-> frame_id, source_file |-> VideoPath.name,
     read_index |-> frame_id + 1,
     timestamp |-> Fraction(frame_id, 25),
     landmarks |-> ApiLandmarks(frame_id),
     confidence |-> Fraction(One \div 2, One)]

ResultLists ==
    {[i \in 1..Len(ids) |-> ApiPoseResult(ids[i])]
     : ids \in Increasing(0, MaxFrames - 1)}

InitExporters ==
    /\ input_path = VideoPath
    /\ video = NoVideo
    /\ listing = <<>>
    /\ save_frames = TRUE
    /\ save_overlays = TRUE
    /\ show_progress = FALSE
    /\ dirs_before = {"output_dir"}
    /\ fs_dirs = dirs_before
    /\ pc = "api"
    /\ input_type = "unknown"
    /\ frame_files = <<>>
    /\ overlay_files = <<>>
    /\ image_files = <<>>
    /\ iterdir_sorted = TRUE
    /\ frames_read = 0
    /\ saved_frame_counter = 0
    /\ detected_poses = <<>>
    /\ estimator_calls = <<>>
    /\ frames_processed = 0
    /\ profiler_started = FALSE
    /\ progress_active = FALSE
    /\ capture_open = FALSE
    /\ progress_updates = 0
    /\ progress_failed = FALSE
    /\ failed_write = "none"
    /\ stats = NoStats
    /\ json_file = Absent
    /\ csv_file = Absent
    /\ error = "none"
    /\ exception = "none"
    /\ exit_code = -1
    /\ InitSampler
    /\ InitProcessor
    /\ InitRenderer

apiUnchanged == <<inputVars, samplerVars, processorVars, rendererVars, fs_dirs, frame_files, overlay_files, image_files, iterdir_sorted,
                  frames_read, saved_frame_counter, estimator_calls,
                  frames_processed, progressVars, capture_open, failed_write, input_type, profiler_started,
                  exception, exit_code>>

\* exporters.py 34-89: one call of JSONExporter.export.
ApiJSONExport ==
    /\ pc \in {"api", "api_json", "api_csv"}
    /\ \E rs \in ResultLists :
         /\ detected_poses' = rs
         /\ stats' = ProcessingStats(MaxFrames, rs)
         /\ \/ /\ json_file' = JSONExporter_export(rs, stats', json_file)
               /\ error' = "none"
            \/ /\ json_file' \in FailedWrites(json_file)
               /\ error' = "OutputError"
    /\ pc' = "api_json"
    /\ UNCHANGED <<apiUnchanged, csv_file>>

\* exporters.py 95-147: one call of CSVExporter.export.
ApiCSVExport ==
    /\ pc \in {"api", "api_json", "api_csv"}
    /\ \E rs \in ResultLists :
         /\ detected_poses' = rs
         /\ stats' = ProcessingStats(MaxFrames, rs)
         /\ \/ /\ csv_file' = CSVExporter_export(rs, stats', csv_file)
               /\ error' = "none"
            \/ /\ rs # <<>>
               /\ csv_file' \in FailedWrites(csv_file)
               /\ error' = "OutputError"
    /\ pc' = "api_csv"
    /\ UNCHANGED <<apiUnchanged, json_file>>

NextExporters ==
    \/ ApiJSONExport
    \/ ApiCSVExport

SpecExporters == InitExporters /\ [][NextExporters]_vars


\* ------------------------------------------------ the classifier on its own
\* validate_input_path and get_input_type on paths of every kind and many
\* names. Each case gives a name and the class its extension belongs to
\* ("none": in neither allow-list).
Case(name, class) == [name |-> name, class |-> class]

ClassifierCases ==
    { Case(<<"x", ".", "j", "p", "g">>, "image"),
      Case(<<"x", ".", "J", "P", "G">>, "image"),
      Case(<<"x", ".", "J", "p", "e", "g">>, "image"),
      Case(<<"x", ".", "p", "n", "g">>, "image"),
      Case(<<"x", ".", "b", "m", "p">>, "image"),
      Case(<<"x", ".", "t", "i", "f", "f">>, "image"),
      Case(<<"x", ".", "T", "I", "F">>, "image"),
      Case(<<"x", ".", "w", "e", "b", "p">>, "image"),
      Case(<<"x", ".", "t", "x", "t", ".", "p", "n", "g">>, "image"),
      Case(<<"x", ".", "m", "p", "4">>, "video"),
      Case(<<"x", ".", "M", "P", "4">>, "video"),
      Case(<<"x", ".", "a", "v", "i">>, "video"),
      Case(<<"x", ".", "M", "o", "V">>, "video"),
      Case(<<"x", ".", "m", "k", "v">>, "video"),
      Case(<<"x", ".", "w", "m", "v">>, "video"),
      Case(<<"x", ".", "f", "l", "v">>, "video"),
      Case(<<"x", ".", "w", "e", "b", "m">>, "video"),
      Case(<<"x", ".", "m", "4", "v">>, "video"),
      Case(<<"x", ".", "j", "p", "g", ".", "m", "p", "4">>, "video"),
      Case(<<"x", ".", "t", "x", "t">>, "none"),
      Case(<<"x", ".", "j", "p", "g", ".", "t", "x", "t">>, "none"),
      Case(<<"x", ".", "j", "p">>, "none"),
      Case(<<"x">>, "none"),
      Case(<<"j", "p", "g">>, "none"),
      Case(<<"x", ".">>, "none"),
      Case(<<".", "m", "p", "4">>, "none") }

\* What may be found at a path: nothing, a regular file, a directory, or
\* something that is neither (a socket, a device).
PathKinds ==
    { [exists |-> FALSE, is_file |-> FALSE, is_dir |-> FALSE],
      [exists |-> TRUE, is_file |-> TRUE, is_dir |-> FALSE],
      [exists |-> TRUE, is_file |-> FALSE, is_dir |-> TRUE],
      [exists |-> TRUE, is_file |-> FALSE, is_dir |-> FALSE] }

ClassifierPaths ==
    { [exists |-> k.exists, is_file |-> k.is_file, is_dir |-> k.is_dir,
       name |-> c.name] : k \in PathKinds, c \in ClassifierCases }

InitClassifier ==
    /\ input_path \in ClassifierPaths
    /\ video = NoVideo
    /\ listing = <<>>
    /\ save_frames = TRUE
    /\ save_overlays = TRUE
    /\ show_progress = FALSE
    /\ dirs_before = {"output_dir"}
    /\ fs_dirs = dirs_before
    /\ pc = "validate"
    /\ input_type = "unknown"
    /\ frame_files = <<>>
    /\ overlay_files = <<>>
    /\ image_files = <<>>
    /\ iterdir_sorted = TRUE
    /\ frames_read = 0
    /\ saved_frame_counter = 0
    /\ detected_poses = <<>>
    /\ estimator_calls = <<>>
    /\ frames_processed = 0
    /\ profiler_started = FALSE
    /\ progress_active = FALSE
    /\ capture_open = FALSE
    /\ progress_updates = 0
    /\ progress_failed = FALSE
    /\ failed_write = "none"
    /\ stats = NoStats
    /\ json_file = Absent
    /\ csv_file = Absent
    /\ error = "none"
    /\ exception = "none"
    /\ exit_code = -1
    /\ InitSampler
    /\ InitProcessor
    /\ InitRenderer

\* The classification is the first step of process_input.
NextClassifier == Validate

SpecClassifier == InitClassifier /\ [][NextClassifier]_vars



\* ===================================================== PerformanceProfiler
\* performance.py 35-131: one PerformanceProfiler, its caller and the sampler
\* threads it starts, each at the granularity of one read or one write of the
\* state they share (the Event and the two sample lists).

\* The pipeline's own variables, which the profiler does not touch.
pipelineVars == <<inputVars, processorVars, rendererVars, fileVars, loopVars, progressVars, capture_open, failed_write, pc, input_type,
                  profiler_started, stats, error, exception, exit_code>>

\* The pipeline at rest, no run under way, and a profiler just constructed.
PipelineAtRest ==
    /\ input_path = [exists |-> FALSE, is_file |-> FALSE, is_dir |-> FALSE,
                     name |-> <<"x">>]
    /\ video = NoVideo
    /\ listing = <<>>
    /\ save_frames = FALSE
    /\ save_overlays = FALSE
    /\ show_progress = FALSE
    /\ dirs_before = {}
    /\ fs_dirs = dirs_before
    /\ pc = "api"
    /\ input_type = "unknown"
    /\ frame_files = <<>>
    /\ overlay_files = <<>>
    /\ image_files = <<>>
    /\ iterdir_sorted = TRUE
    /\ frames_read = 0
    /\ saved_frame_counter = 0
    /\ detected_poses = <<>>
    /\ estimator_calls = <<>>
    /\ frames_processed = 0
    /\ profiler_started = FALSE
    /\ progress_active = FALSE
    /\ capture_open = FALSE
    /\ progress_updates = 0
    /\ progress_failed = FALSE
    /\ failed_write = "none"
    /\ stats = NoStats
    /\ json_file = Absent
    /\ csv_file = Absent
    /\ error = "none"
    /\ exception = "none"
    /\ exit_code = -1
    /\ InitSampler
    /\ InitProcessor

InitProfiler ==
    /\ PipelineAtRest
    /\ InitRenderer

\* A sampler thread: its position in _monitor_system_resources and, between
\* its two appends, the sampling round it is in (0 otherwise).
Sampler(at, round) == [at |-> at, round |-> round]

\* threading.Thread.is_alive.
is_alive(thread) == thread.at # "dead"

\* performance.py 52-64: start(): the Event is cleared and a new daemon thread
\* is started; the sample lists are left as they are.
StartThread ==
    /\ Len(monitoring_threads) < MaxStarts
    /\ stop_monitoring' = FALSE
    /\ monitoring_threads' = Append(monitoring_threads, Sampler("loop", 0))
    /\ profiler_pc' = "running"
    /\ UNCHANGED <<cpu_samples, memory_samples, stop_sum, metrics>>

\* A call of start() by a caller that has stopped the profiler or not yet
\* started it.
start ==
    /\ profiler_pc \in {"new", "stopped"}
    /\ StartThread
    /\ UNCHANGED pipelineVars

\* The sampling rounds begun: the CPU readings appended and those about to be.
RoundsBegun ==
    Len(cpu_samples) + Len(SelectSeq(monitoring_threads,
                                     LAMBDA thread : thread.at = "cpu"))

\* performance.py 114: the sampler tests the Event; when it is set the loop,
\* and with it the thread, ends.
SamplerTest(t) ==
    /\ monitoring_threads[t].at = "loop"
    /\ stop_monitoring \/ RoundsBegun < MaxSamples
    /\ monitoring_threads' =
         [monitoring_threads EXCEPT
            ![t].at = IF stop_monitoring THEN "dead" ELSE "cpu"]
    /\ UNCHANGED <<pipelineVars, profiler_pc, stop_monitoring, cpu_samples,
                   memory_samples, stop_sum, metrics>>

\* A faulty variant: the sampler counts a frame with every CPU reading.
SamplerCpu_CountsFrame(t) ==
    /\ monitoring_threads[t].at = "cpu"
    /\ cpu_samples' = Append(cpu_samples, Len(cpu_samples) + 1)
    /\ monitoring_threads' =
         [monitoring_threads EXCEPT
            ![t] = Sampler("memory", Len(cpu_samples) + 1)]
    /\ frames_processed' = frames_processed + 1
    /\ UNCHANGED <<inputVars, processorVars, rendererVars, fileVars,
                   image_files, iterdir_sorted, frames_read,
                   saved_frame_counter, detected_poses, estimator_calls,
                   progressVars, capture_open, failed_write, pc, input_type,
                   profiler_started, stats, error, exception, exit_code,
                   profiler_pc, stop_monitoring, memory_samples, stop_sum,
                   metrics>>

\* performance.py 117-118: the CPU reading of a new round is appended.
SamplerCpu(t) ==
    /\ monitoring_threads[t].at = "cpu"
    /\ cpu_samples' = Append(cpu_samples, Len(cpu_samples) + 1)
    /\ monitoring_threads' =
         [monitoring_threads EXCEPT
            ![t] = Sampler("memory", Len(cpu_samples) + 1)]
    /\ UNCHANGED <<pipelineVars, profiler_pc, stop_monitoring, memory_samples,
                   stop_sum, metrics>>

\* performance.py 121-127: the memory reading of the round is appended; the
\* thread sleeps and goes back to the test of the loop.
SamplerMemory(t) ==
    /\ monitoring_threads[t].at = "memory"
    /\ memory_samples' = Append(memory_samples, monitoring_threads[t].round)
    /\ monitoring_threads' = [monitoring_threads EXCEPT ![t] = Sampler("loop", 0)]
    /\ UNCHANGED <<pipelineVars, profiler_pc, stop_monitoring, cpu_samples,
                   stop_sum, metrics>>

\* performance.py 115-131: a psutil call raises (117, 121-123): the handler
\* logs a warning and breaks, the thread ends without the pending append.
SamplerRaises(t) ==
    /\ monitoring_threads[t].at \in {"cpu", "memory"}
    /\ monitoring_threads' = [monitoring_threads EXCEPT ![t] = Sampler("dead", 0)]
    /\ UNCHANGED <<pipelineVars, profiler_pc, stop_monitoring, cpu_samples,
                   memory_samples, stop_sum, metrics>>

\* performance.py 72-76: stop() takes the time since start(), which is 0 when
\* the clock has not moved, and sets the Event.
StopSignal ==
    /\ profiler_pc = "running"
    /\ \E elapsed \in {0, 1} :
          metrics' = [metrics EXCEPT !.processing_time = elapsed]
    /\ stop_monitoring' = TRUE
    /\ profiler_pc' = "join"
    /\ UNCHANGED <<pipelineVars, monitoring_threads, cpu_samples,
                   memory_samples, stop_sum>>

\* A faulty variant: a join without timeout, which waits for the thread's end.
JoinReturns_NoTimeout(thread, timed_out) == ~is_alive(thread)

\* performance.py 78-79: whether `join(timeout=1.0)` returns: when the thread
\* has ended, or, with the thread still alive, when the second has passed.
JoinReturns(thread, timed_out) == ~is_alive(thread) \/ timed_out

\* performance.py 78-79: the bounded wait for _monitoring_thread.
StopJoin ==
    /\ profiler_pc = "join"
    /\ \E timed_out \in BOOLEAN :
          JoinReturns(monitoring_threads[Len(monitoring_threads)], timed_out)
    /\ profiler_pc' = "cpu_sum"
    /\ UNCHANGED <<pipelineVars, stop_monitoring, monitoring_threads,
                   cpu_samples, memory_samples, stop_sum, metrics>>

\* performance.py 82-83: `if self._cpu_samples` and sum(self._cpu_samples).
StopCpuSum ==
    /\ profiler_pc = "cpu_sum"
    /\ stop_sum' = cpu_samples
    /\ profiler_pc' = IF cpu_samples = <<>> THEN "memory_percent_sum"
                      ELSE "cpu_len"
    /\ UNCHANGED <<pipelineVars, stop_monitoring, monitoring_threads,
                   cpu_samples, memory_samples, metrics>>

\* performance.py 83: len(self._cpu_samples) and the division.
StopCpuLen ==
    /\ profiler_pc = "cpu_len"
    /\ metrics' = [metrics EXCEPT
                     !.cpu_percent = [summed |-> stop_sum,
                                      len |-> Len(cpu_samples)]]
    /\ stop_sum' = <<>>
    /\ profiler_pc' = "memory_percent_sum"
    /\ UNCHANGED <<pipelineVars, stop_monitoring, monitoring_threads,
                   cpu_samples, memory_samples>>

\* performance.py 90-91: the frame rate stop() leaves in the metrics: the
\* quotient when processing_time > 0, otherwise the value that was there.
stop_fps(m, frames) ==
    IF m.processing_time > 0 THEN Fraction(frames, m.processing_time)
    ELSE m.fps

\* performance.py 85-86: `if self._memory_samples` and the sum of s[0]; with
\* no memory sample, 90-96: the frame rate and the return.
StopMemoryPercentSum ==
    /\ profiler_pc = "memory_percent_sum"
    /\ stop_sum' = memory_samples
    /\ IF memory_samples = <<>>
       THEN /\ profiler_pc' = "stopped"
            /\ metrics' = [metrics EXCEPT
                             !.fps = stop_fps(metrics, frames_processed)]
       ELSE /\ profiler_pc' = "memory_percent_len"
            /\ UNCHANGED metrics
    /\ UNCHANGED <<pipelineVars, stop_monitoring, monitoring_threads,
                   cpu_samples, memory_samples>>

\* performance.py 86: len(self._memory_samples) and the division.
StopMemoryPercentLen ==
    /\ profiler_pc = "memory_percent_len"
    /\ metrics' = [metrics EXCEPT
                     !.memory_percent = [summed |-> stop_sum,
                                         len |-> Len(memory_samples)]]
    /\ stop_sum' = <<>>
    /\ profiler_pc' = "memory_mb_sum"
    /\ UNCHANGED <<pipelineVars, stop_monitoring, monitoring_threads,
                   cpu_samples, memory_samples>>

\* performance.py 87: the sum of s[1].
StopMemoryMbSum ==
    /\ profiler_pc = "memory_mb_sum"
    /\ stop_sum' = memory_samples
    /\ profiler_pc' = "memory_mb_len"
    /\ UNCHANGED <<pipelineVars, stop_monitoring, monitoring_threads,
                   cpu_samples, memory_samples, metrics>>

\* performance.py 87-96: len(self._memory_samples), the division, the frame
\* rate and the return of the metrics, which ends the life of stop()'s locals.
StopMemoryMbLen ==
    /\ profiler_pc = "memory_mb_len"
    /\ metrics' = [metrics EXCEPT
                     !.memory_mb = [summed |-> stop_sum,
                                    len |-> Len(memory_samples)],
                     !.fps = stop_fps(metrics, frames_processed)]
    /\ stop_sum' = <<>>
    /\ profiler_pc' = "stopped"
    /\ UNCHANGED <<pipelineVars, stop_monitoring, monitoring_threads,
                   cpu_samples, memory_samples>>

\* performance.py 106-108: increment_frame_count, called by the run between
\* start() and stop().
increment_frame_count ==
    /\ profiler_pc = "running"
    /\ frames_processed < MaxFrames
    /\ frames_processed' = frames_processed + 1
    /\ UNCHANGED <<inputVars, processorVars, rendererVars, samplerVars, fileVars,
                   image_files, iterdir_sorted, frames_read,
                   saved_frame_counter, detected_poses, estimator_calls,
                   progressVars, capture_open, failed_write, pc, input_type,
                   profiler_started, stats, error, exception, exit_code>>

\* performance.py 66-96: the steps of one call of stop().
stop ==
    \/ StopSignal
    \/ StopJoin
    \/ StopCpuSum
    \/ StopCpuLen
    \/ StopMemoryPercentSum
    \/ StopMemoryPercentLen
    \/ StopMemoryMbSum
    \/ StopMemoryMbLen

\* performance.py 110-131: a step of one of the sampler threads.
monitor_system_resources ==
    \E t \in DOMAIN monitoring_threads :
       \/ SamplerTest(t)
       \/ SamplerCpu(t)
       \/ SamplerMemory(t)
       \/ SamplerRaises(t)

NextProfiler ==
    \/ start
    \/ stop
    \/ monitor_system_resources

SpecProfiler == InitProfiler /\ [][NextProfiler]_vars

\* The profiler as a run drives it: frames are counted between start() and
\* stop().
NextProfilerFrames ==
    \/ start
    \/ increment_frame_count
    \/ stop
    \/ monitor_system_resources

SpecProfilerFrames == InitProfiler /\ [][NextProfilerFrames]_vars

\* The caller's thread runs: a call of stop() that can take a step takes it.
\* Nothing is assumed of the sampler threads, which are daemon threads and may
\* be held in a psutil call or never be scheduled.
SpecProfilerLive == SpecProfiler /\ WF_vars(stop)

\* ================================================================== claims
FrameIds(results) == [i \in 1..Len(results) |-> results[i].frame_id]
FileIds(log) == [i \in 1..Len(log) |-> log[i].id]
IsPose(call) == call.outcome = "pose"
PoseCalls == SelectSeq(estimator_calls, IsPose)
StrictlyIncreasing(ids) == \A i, j \in 1..Len(ids) : i < j => ids[i] < ids[j]
\* No write and no Estimator call has failed so far.
NoFailure == error \in {"none", "KeyboardInterrupt"}
\* process_input has left the frame loop normally.
PastLoop == pc \in {"stop_profiler", "export", "cleanup", "returned"}

\* C1: in video mode the n-th frame read gets id n-1; with save_frames the
\* frame file of every frame read is written under that id, pose or no pose
\* (also when the Estimator raised on it), so the frame files are 0..N-1 after
\* N frames; only a failed frame write itself leaves the last frame unwritten.
C1_VideoFrameIds ==
    input_type = "video" =>
        /\ pc = "video_loop" => saved_frame_counter = frames_read
        /\ ~save_frames => frame_files = <<>>
        /\ \A i \in 1..Len(frame_files) :
              frame_files[i] = [id |-> i - 1, read_index |-> i]
        /\ save_frames /\ error # "OutputError" => Len(frame_files) = frames_read
        /\ save_frames => Len(frame_files) + 1 >= frames_read

\* C1's case: a finished run that saved every frame of a video of two or
\* more frames, some of them without a pose.
C1_Witness ==
    /\ input_type = "video" /\ save_frames /\ pc = "returned"
    /\ frames_read >= 2
    /\ Len(frame_files) = frames_read
    /\ Len(detected_poses) < frames_read

\* C2: in video mode with save_overlays one overlay is written per frame read,
\* under the frame's sequential id, plain exactly when no pose was found; while
\* nothing has failed the overlays are 0..N-1 after N frames and at least as
\* many as the results.
C2_VideoOverlays ==
    input_type = "video" =>
        /\ ~save_overlays => overlay_files = <<>>
        /\ \A i \in 1..Len(overlay_files) :
              /\ overlay_files[i].id = i - 1
              /\ overlay_files[i].read_index = i
              /\ overlay_files[i].plain = (estimator_calls[i].outcome = "none")
        /\ save_overlays /\ NoFailure =>
              /\ Len(overlay_files) = frames_read
              /\ Len(overlay_files) >= Len(detected_poses)

\* C2's case: three frames, poses on the first and the third: overlays 0, 1, 2
\* with the second one plain.
C2_Witness ==
    /\ input_type = "video" /\ save_overlays /\ pc = "returned"
    /\ frames_read = 3
    /\ FrameIds(detected_poses) = <<0, 2>>
    /\ FileIds(overlay_files) = <<0, 1, 2>>
    /\ overlay_files[2].plain /\ ~overlay_files[1].plain

\* C3: in video mode the results are exactly the frames on which the Estimator
\* returned landmarks, one each, in reading order (unless building the result
\* itself failed, which ends the run); a result's frame_id is its frame's read
\* position minus one, so the frame_ids increase strictly; the JSON file, once
\* written, lists the same frame_ids.
C3_VideoResults ==
    input_type = "video" =>
        /\ \A i \in 1..Len(estimator_calls) : estimator_calls[i].image = i
        /\ error # "PipeDetectError" =>
              FrameIds(detected_poses) =
                 [i \in 1..Len(PoseCalls) |-> PoseCalls[i].image - 1]
        /\ \A i \in 1..Len(detected_poses) :
              detected_poses[i].frame_id = detected_poses[i].read_index - 1
        /\ StrictlyIncreasing(FrameIds(detected_poses))
        /\ json_file.state = "written" =>
              FrameIds(json_file.results) = FrameIds(detected_poses)

\* C3's case: three frames, poses on the first and the third, exported as
\* frame_ids 0 and 2.
C3_Witness ==
    /\ input_type = "video" /\ pc = "returned"
    /\ Len(estimator_calls) = 3
    /\ estimator_calls[2].outcome = "none"
    /\ json_file.state = "written"
    /\ FrameIds(json_file.results) = <<0, 2>>

C5_DirFrameIds ==
    input_type = "directory" =>
        \A i \in 1..Len(detected_poses) :
            /\ detected_poses[i].frame_id = detected_poses[i].read_index - 1
            /\ detected_poses[i].frame_id < Len(image_files)
            /\ image_files[detected_poses[i].frame_id + 1] = detected_poses[i].source_file
            /\ i - 1 <= detected_poses[i].frame_id
            /\ save_frames =>
                  /\ frame_files[i].read_index = detected_poses[i].read_index
                  /\ frame_files[i].id <= detected_poses[i].frame_id

\* C5's case: a detection after an image without a pose, so that the two
\* counters differ.
C5_Witness ==
    /\ input_type = "directory" /\ pc = "returned" /\ save_frames
    /\ \E i \in 1..Len(detected_poses) :
          /\ detected_poses[i].frame_id > i - 1
          /\ frame_files[i].id < detected_poses[i].frame_id

ListingNames == {listing[i] : i \in 1..Len(listing)}
ListedImages == {n \in ListingNames : Lower(Suffix(n)) \in SUPPORTED_IMAGE_EXTENSIONS}
Visited == {estimator_calls[i].image : i \in 1..Len(estimator_calls)}

\* C6: in directory mode the Estimator gets the image files in increasing
\* lexicographic order of their names, whatever the enumeration order: every
\* file visited is a listed image, smaller than every file visited later and
\* than every listed image not yet visited; after the loop every listed image
\* has been visited; a file outside the allow-list never is.
C6_DirSortedOrder ==
    input_type = "directory" =>
        /\ Visited \subseteq ListedImages
        /\ \A i, j \in 1..Len(estimator_calls) :
              i < j => LexLess(estimator_calls[i].image, estimator_calls[j].image)
        /\ \A n \in ListedImages \ Visited : \A v \in Visited : LexLess(v, n)
        /\ PastLoop => Visited = ListedImages

\* C6's case: a finished run on a directory enumerated out of order, holding
\* three images and a file that is no image.
C6_Witness ==
    /\ input_type = "directory" /\ pc = "returned"
    /\ Len(estimator_calls) = 3
    /\ ListingNames # ListedImages
    /\ ~iterdir_sorted

\* C7: a run on a directory without any image file fails with ValidationError
\* and has created no output directory.
C7_NoDirsOnEmptyDirectory ==
    input_type = "directory" /\ error = "ValidationError" => fs_dirs = dirs_before

\* C8: every run of process_input that returns leaves a JSON file, also when
\* no pose was detected.
C8_JsonAlwaysWritten ==
    pc = "returned" => json_file.state = "written"

\* C9: JSONExporter.export, when it does not fail, leaves a file for every
\* results list, the empty one included (results: []); CSVExporter.export on
\* an empty list leaves the file system as it was, and writes otherwise.
C9_ExportersOnEmpty ==
    [][/\ pc' = "api_json" /\ error' = "none" =>
              /\ json_file'.state = "written"
              /\ FrameIds(json_file'.results) = FrameIds(detected_poses')
       /\ pc' = "api_csv" /\ detected_poses' = <<>> => csv_file' = csv_file
       /\ pc' = "api_csv" /\ detected_poses' # <<>> /\ error' = "none" =>
              csv_file'.state = "written"]_vars

\* C9's case: both exporters were called on the empty list; the JSON file is
\* there with no results, the CSV file is not.
C9_Witness ==
    /\ pc = "api_csv" /\ detected_poses = <<>>
    /\ json_file.state = "written" /\ json_file.results = <<>>
    /\ csv_file = Absent

\* C10: a run interrupted between frames still exports the results it had
\* accumulated before it ends.
C10_InterruptedRunExports ==
    pc = "exited" /\ error = "KeyboardInterrupt" /\ detected_poses # <<>> =>
        /\ json_file.state = "written"
        /\ csv_file.state = "written"

\* C11: a run that completes with a success rate below 50% is no error: with
\* process_input having returned its statistics, the command exits with the
\* success status 0.
C11_LowSuccessRateExitsZero ==
    pc = "exited" /\ error = "none" /\ LowSuccessRate(stats) => exit_code = 0

\* The input is one that validation rejects by its path alone: it does not
\* exist, or it is a file whose extension is in neither allow-list.
BadInputPath ==
    \/ ~input_path.exists
    \/ /\ input_path.is_file
       /\ Lower(Suffix(input_path.name)) \notin
             SUPPORTED_IMAGE_EXTENSIONS \cup SUPPORTED_VIDEO_EXTENSIONS

\* C13: on a missing input path, or a file with an extension in neither
\* allow-list, the run never gets past validation: it ends with
\* ValidationError, and no output directory has been created, the profiler
\* has not been started, no frame has been read, nothing has been written and
\* the Estimator has not been called.
C13_ValidationBeforeProcessing ==
    BadInputPath =>
        /\ pc \in {"validate", "raised", "exited"}
        /\ pc # "validate" => error = "ValidationError"
        /\ fs_dirs = dirs_before
        /\ ~profiler_started
        /\ frames_processed = 0 /\ frames_read = 0
        /\ estimator_calls = <<>>
        /\ frame_files = <<>> /\ overlay_files = <<>>
        /\ json_file = Absent /\ csv_file = Absent

\* C13's case: the command has ended on an existing file with an unsupported
\* extension.
C13_Witness ==
    /\ pc = "exited" /\ error = "ValidationError"
    /\ input_path.exists /\ input_path.is_file
    /\ BadInputPath

\* C15: success_rate never divides by zero; it is processed_frames over
\* total_frames when total_frames > 0 and exactly 0 when total_frames = 0.
C15_SuccessRate ==
    /\ success_rate(stats).den > 0
    /\ stats.total_frames > 0 =>
          success_rate(stats).num * stats.total_frames =
             stats.processed_frames * success_rate(stats).den
    /\ stats.total_frames = 0 => success_rate(stats).num = 0

\* C15's case: main has read the success rate of a run that counted no frame.
C15_Witness ==
    /\ pc = "exited" /\ error = "none"
    /\ stats.total_frames = 0
    /\ exit_code = 1

\* The class of the extension of the input path, by the table of cases.
ExtensionClass == (CHOOSE c \in ClassifierCases : c.name = input_path.name).class

\* C14: the classifier answers 'image' for an existing file with an image
\* extension, 'video' for one with a video extension, 'directory' for an
\* existing directory, and raises ValidationError in every other case (missing
\* path, neither file nor directory, extension in neither list); the
\* extension is matched without regard to case and the two allow-lists are
\* disjoint.
C14_InputClassifier ==
    /\ SUPPORTED_IMAGE_EXTENSIONS \cap SUPPORTED_VIDEO_EXTENSIONS = {}
    /\ pc # "validate" =>
          IF input_path.exists /\ input_path.is_file /\ ExtensionClass # "none"
          THEN input_type = ExtensionClass /\ error = "none"
          ELSE IF input_path.exists /\ input_path.is_dir
          THEN input_type = "directory" /\ error = "none"
          ELSE input_type = "unknown" /\ error = "ValidationError"

\* C14's case: a file whose image extension is spelled in mixed case has been
\* classified as an image.
C14_Witness ==
    /\ pc = "create_paths"
    /\ input_path.name = <<"x", ".", "J", "p", "e", "g">>
    /\ input_type = "image"

\* The cells of landmark slot i (0-based) of a CSV row or header.
SlotCellsOf(row, i) == SubSeq(row, 4 + 5 * i + 1, 4 + 5 * i + 5)

\* C12: a CSV file that was written has a header of 169 columns, the four
\* leading names and then the five names of each of the slots 0..32, and rows
\* of 169 columns each; in the row of a result, slot i holds the five fields
\* of landmark i when the result has one, and five zeros when it has not, so
\* that no landmark of index 33 or more appears; a call on any non-empty list
\* that does not fail in writing leaves such a file with one row per result.
C12_CsvRowWidth ==
    /\ csv_file.state = "written" =>
          /\ Len(csv_file.header) = 169
          /\ \A i \in 0..32 :
                \A c \in 1..5 : SlotCellsOf(csv_file.header, i)[c][2] = i
          /\ \A r \in 1..Len(csv_file.rows) : Len(csv_file.rows[r]) = 169
    /\ pc = "api_csv" /\ error = "none" /\ detected_poses # <<>> =>
          /\ csv_file.state = "written"
          /\ Len(csv_file.rows) = Len(detected_poses)
          /\ \A r \in 1..Len(detected_poses) :
                LET lms == detected_poses[r].landmarks
                    row == csv_file.rows[r]
                IN  /\ row[1] = detected_poses[r].frame_id
                    /\ row[3] = detected_poses[r].confidence
                    /\ \A i \in 0..32 :
                          SlotCellsOf(row, i) =
                             IF i < Len(lms)
                             THEN << lms[i + 1].x, lms[i + 1].y, lms[i + 1].z,
                                     lms[i + 1].visibility, lms[i + 1].presence >>
                             ELSE <<0, 0, 0, 0, 0>>

\* C12's case: a CSV file written for a result with fewer than 33 landmarks
\* and a result with more.
C12_Witness ==
    /\ pc = "api_csv" /\ error = "none"
    /\ csv_file.state = "written"
    /\ \E i, j \in 1..Len(detected_poses) :
          /\ Len(detected_poses[i].landmarks) < 33
          /\ Len(detected_poses[j].landmarks) > 33
    /\ \A r \in 1..Len(csv_file.rows) : Len(csv_file.rows[r]) = 169

\* The mean of the visibilities of a landmark list is the fraction v.
IsMeanVisibility(v, landmarks) ==
    /\ landmarks # <<>>
    /\ v.den > 0
    /\ v.num * Len(landmarks) = Sum(Visibilities(landmarks)) * v.den

\* C16: every PoseResult of the pipeline, in every mode, carries the
\* landmarks the Estimator returned for its input, and its confidence is the
\* arithmetic mean of the visibilities of these landmarks.
C16_ConfidenceIsMeanVisibility ==
    \A i \in 1..Len(detected_poses) :
        /\ detected_poses[i].landmarks =
              estimator_calls[detected_poses[i].read_index].landmarks
        /\ IsMeanVisibility(detected_poses[i].confidence, detected_poses[i].landmarks)

\* C16's case: a finished run with two results of different confidence.
C16_Witness ==
    /\ pc = "returned"
    /\ Len(detected_poses) >= 2
    /\ ~FractionEq(detected_poses[1].confidence, detected_poses[2].confidence)
    /\ json_file.state = "written"

InRange(v) == v.den > 0 /\ 0 <= v.num /\ v.num <= 100 * v.den

\* C17: a confidence outside [0,1] is rejected: every PoseResult in the
\* results, in the JSON file and in the CSV file has 0 <= confidence <= 1, and
\* an Estimator call that returned visibilities with a mean out of range is
\* the last call of its run, which has failed without a result for it.
C17_ConfidenceInRange ==
    /\ \A i \in 1..Len(detected_poses) : InRange(detected_poses[i].confidence)
    /\ json_file.state = "written" =>
          \A i \in 1..Len(json_file.results) : InRange(json_file.results[i].confidence)
    /\ csv_file.state = "written" =>
          \A i \in 1..Len(csv_file.rows) : InRange(csv_file.rows[i][3])
    /\ \A i \in 1..Len(estimator_calls) :
          LET lms == estimator_calls[i].landmarks
          IN  lms # <<>> /\ ~InRange(Fraction(Sum(Visibilities(lms)), Len(lms))) =>
                /\ i = Len(estimator_calls)
                /\ pc \in {"raised", "exited"}
                /\ error \in {"PipeDetectError", "DetectionError"}
                /\ \A j \in 1..Len(detected_poses) : detected_poses[j].read_index # i
                /\ json_file = Absent /\ csv_file = Absent

\* C17's case: a run with a result already recorded has failed on a frame
\* for which the Estimator returned visibilities with a mean above 1.
C17_Witness ==
    /\ pc = "exited" /\ error = "PipeDetectError"
    /\ detected_poses # <<>>
    /\ LET last == estimator_calls[Len(estimator_calls)]
       IN  /\ last.outcome = "pose" /\ last.landmarks # <<>>
           /\ Sum(Visibilities(last.landmarks)) > 100 * Len(last.landmarks)

\* C20: an exception raised by the progress tracker's start, update or finish
\* is isolated from the pipeline: the step in which the tracker call raises
\* raises no error out of the processing function, so the run goes on as a
\* run without progress display does.
C20_ProgressFailureIsolated ==
    [][progress_failed' /\ ~progress_failed =>
           /\ error' = error
           /\ pc' # "raised"]_vars

\* The positions of the caller inside a call of stop().
InStop ==
    profiler_pc \in {"join", "cpu_sum", "cpu_len", "memory_percent_sum",
                     "memory_percent_len", "memory_mb_sum", "memory_mb_len"}

\* C18: a call of PerformanceProfiler.stop() always returns, whatever the
\* sampler thread does: once the stop signal is raised, the wait for the
\* thread is bounded and the aggregates are computed from the samples there
\* are, so the caller cannot be held in the shutdown of the profiler.
C18_StopReturns == InStop ~> profiler_pc = "stopped"

\* stop() has returned with aggregates while the sampler thread it waited for
\* had not ended (the wait timed out).
C18_Witness ==
    /\ profiler_pc = "stopped"
    /\ stop_monitoring
    /\ is_alive(monitoring_threads[Len(monitoring_threads)])
    /\ metrics.cpu_percent.len > 0

\* The sampling rounds an aggregate was taken over.
Rounds(mean) == {mean.summed[i] : i \in 1..Len(mean.summed)}

\* C19: stop() reads the sample lists only after every sampler has left its
\* loop, so that no sample is appended while the aggregates are computed, and
\* the CPU mean and the memory means it returns are taken over the same
\* sampling rounds, each divided by the number of samples it summed.
C19_NoTornRead ==
    /\ InStop /\ profiler_pc # "join" =>
          \A t \in DOMAIN monitoring_threads : ~is_alive(monitoring_threads[t])
    /\ profiler_pc = "stopped" =>
          /\ Rounds(metrics.cpu_percent) = Rounds(metrics.memory_percent)
          /\ Rounds(metrics.cpu_percent) = Rounds(metrics.memory_mb)
          /\ \A m \in {metrics.cpu_percent, metrics.memory_percent,
                       metrics.memory_mb} : m.len = Len(m.summed)

\* C21: the MediaPipe handle of a PoseProcessor is closed when its with-scope
\* is left, whether process_input returned, raised a PipeDetectError (its own
\* or one wrapping an unexpected exception) or was interrupted, and nothing,
\* the Estimator included, runs on the processor once the handle is closed.
C21_HandleReleasedOnExit ==
    /\ pc = "exited" => pose_handle = "closed"
    /\ pose_handle = "closed" => pc = "exited"

\* The scope was left by an exception after the Estimator had been used.
C21_Witness ==
    /\ pc = "exited"
    /\ pose_handle = "closed"
    /\ error \in {"DetectionError", "KeyboardInterrupt", "PipeDetectError"}
    /\ estimator_calls # <<>>

\* C22: a failure to write an output artifact (a video frame, the copy of an
\* input image, an overlay, the JSON file or the CSV file) leaves
\* process_input as an OutputError.
C22_WriteFailureIsOutputError ==
    failed_write # "none" => error = "OutputError"

\* C23: a video that cannot be opened fails the run with FileProcessingError
\* before any frame is read: the Estimator was not invoked, the profiler's
\* frame count is the one the run began with, no frame or overlay file was
\* written and neither export file exists. (A progress tracker that raises
\* when it is started ends the run before the open is tried.)
C23_UnopenableVideo ==
    /\ input_type = "video" /\ ~video.opens
    /\ pc \in {"raised", "exited"}
    /\ ~progress_failed
    => /\ error = "FileProcessingError"
       /\ frames_read = 0
       /\ estimator_calls = <<>>
       /\ frames_processed = frames_at_start
       /\ frame_files = <<>> /\ overlay_files = <<>>
       /\ json_file = Absent /\ csv_file = Absent

\* The open failed in a run asked to save frames and overlays.
C23_Witness ==
    /\ input_type = "video" /\ ~video.opens
    /\ pc = "raised" /\ error = "FileProcessingError"
    /\ save_frames /\ save_overlays

\* The single-image run has finished looking at its image.
SingleImageDone ==
    /\ input_type = "image"
    /\ pc \in {"stop_profiler", "export", "cleanup", "returned"}

C25_Timestamps ==
    \A i \in 1..Len(detected_poses) :
       LET result == detected_poses[i]
       IN  /\ input_type = "video" =>
                /\ video.fps # 0
                /\ result.timestamp.den # 0
                /\ FractionEq(result.timestamp,
                              Fraction(result.frame_id, video.fps))
           /\ input_type \in {"image", "directory"} =>
                FractionEq(result.timestamp, Fraction(0, 1))

\* A video result past frame 0, whose timestamp is not 0.
C25_Witness ==
    /\ input_type = "video"
    /\ \E i \in 1..Len(detected_poses) :
          /\ detected_poses[i].frame_id = 2
          /\ detected_poses[i].timestamp = Fraction(2, 25)

\* C26: after process_input has returned, each of the two directories of the
\* run either holds at least one file written by the run or does not exist;
\* so a directory created at the start is gone when its kind of file was
\* disabled or when nothing was written into it.
C26_NoEmptyDirectoryLeft ==
    pc = "returned" =>
        /\ "frames_dir" \in fs_dirs => frame_files # <<>>
        /\ "overlay_dir" \in fs_dirs => overlay_files # <<>>
        /\ ~save_frames => "frames_dir" \notin fs_dirs
        /\ ~save_overlays => "overlay_dir" \notin fs_dirs

\* The mean stop() should report over a list of samples: the sum of all of
\* them over their number, and 0 when there is none.
MeanOfAll(samples) ==
    IF samples = <<>> THEN NoMean
    ELSE [summed |-> samples, len |-> Len(samples)]

\* C27: when stop() returns, fps is frames_processed / processing_time, and 0
\* when processing_time is 0; cpu_percent and memory_mb are the arithmetic
\* means of all the samples collected, and 0 when no sample was taken.
C27_StopMetrics ==
    [][(profiler_pc # "stopped" /\ profiler_pc' = "stopped") =>
          /\ metrics'.fps = (IF metrics'.processing_time > 0
                             THEN Fraction(frames_processed',
                                           metrics'.processing_time)
                             ELSE Fraction(0, 1))
          /\ metrics'.cpu_percent = MeanOfAll(cpu_samples')
          /\ metrics'.memory_mb = MeanOfAll(memory_samples')]_vars

\* ========================================================= OverlayRenderer
\* overlay_renderer.py 12-154. An image is a numpy array: an object on the
\* heap, reached by reference, which the cv2 drawing calls change in place.
\* Its content is its shape and the drawing calls made on it, in order.

MaxLandmarks == 3

\* overlay_renderer.py 16-28: POSE_CONNECTIONS.
POSE_CONNECTIONS ==
    << <<0, 1>>, <<1, 2>>, <<2, 3>>, <<3, 7>>,
       <<0, 4>>, <<4, 5>>, <<5, 6>>, <<6, 8>>,
       <<9, 10>>,
       <<11, 12>>, <<11, 13>>, <<13, 15>>, <<15, 17>>, <<15, 19>>, <<15, 21>>,
       <<17, 19>>,
       <<12, 14>>, <<14, 16>>, <<16, 18>>, <<16, 20>>, <<16, 22>>, <<18, 20>>,
       <<11, 23>>, <<12, 24>>, <<23, 24>>,
       <<23, 25>>, <<25, 27>>, <<27, 29>>, <<27, 31>>, <<29, 31>>,
       <<24, 26>>, <<26, 28>>, <<28, 30>>, <<28, 32>>, <<30, 32>> >>

\* overlay_renderer.py 31-34: the colours and sizes __init__ takes by default.
landmark_color == <<0, 255, 0>>
connection_color == <<255, 0, 0>>
landmark_size == 3

\* overlay_renderer.py 53: the default of min_visibility, 0.5.
min_visibility == 50

\* The frame handed to the renderer: 4 rows of 6 pixels, nothing drawn on it.
InputImage == [shape |-> <<4, 6>>, draws |-> <<>>]

\* The landmarks handed to the renderer: normalized coordinates and
\* visibilities in hundredths, one point clearly visible, one not, and one
\* with the visibility of the threshold itself; each falls on its own pixel.
RenderPoints ==
    { [x |-> 50, y |-> 25, z |-> 0, visibility |-> 90, presence |-> One],
      [x |-> 75, y |-> 50, z |-> 0, visibility |-> 30, presence |-> One],
      [x |-> 25, y |-> 75, z |-> 0, visibility |-> 50, presence |-> One] }

RenderLandmarkLists ==
    UNION { [1..n -> RenderPoints] : n \in 0..MaxLandmarks }

\* models.py 28-40: the PoseResult handed to render_pose_with_confidence.
RenderPoseResult(landmarks, timestamp) ==
    [frame_id |-> 0, timestamp |-> timestamp, landmarks |-> landmarks,
     confidence |-> IF landmarks = <<>> THEN Fraction(0, 1)
                    ELSE Confidence(landmarks)]

\* The calls of the two public methods, with the image at reference 1.
RenderCalls ==
    { [method |-> "render_pose_overlay", image |-> 1, landmarks |-> lms,
       draw_landmarks |-> dl, draw_connections |-> dc]
        : lms \in RenderLandmarkLists, dl \in BOOLEAN, dc \in BOOLEAN }
    \cup
    { [method |-> "render_pose_with_confidence", image |-> 1,
       landmarks |-> lms, draw_landmarks |-> TRUE, draw_connections |-> TRUE,
       pose_result |-> RenderPoseResult(lms, ts), show_confidence |-> sc]
        : lms \in RenderLandmarkLists,
          ts \in {Fraction(0, 1), Fraction(1, 25)}, sc \in BOOLEAN }

\* The variables of the renderer's caller, which the renderer does not touch.
callerVars == <<inputVars, samplerVars, processorVars, fileVars, loopVars,
                progressVars, capture_open, failed_write, pc, input_type, profiler_started,
                stats, error, exception, exit_code>>

InitRenderCall ==
    /\ PipelineAtRest
    /\ \E call \in RenderCalls :
          /\ heap = <<InputImage>>
          /\ render_call = call
          /\ render_pc = "entry"
          /\ overlay_image = 0
          /\ render_returned = 0

\* A faulty variant: a view of the array in place of a copy.
ndarray_copy_View(h, ref) == [heap |-> h, ref |-> ref]

\* overlay_renderer.py 67, 69: image.copy(), a new array with the content of
\* the old one.
ndarray_copy(h, ref) == [heap |-> Append(h, h[ref]), ref |-> Len(h) + 1]

\* A cv2 drawing call: the array is changed in place.
cv2_draw(h, ref, drawing) ==
    [h EXCEPT ![ref] = [@ EXCEPT !.draws = Append(@, drawing)]]

\* Python's None.
None == <<>>

\* A faulty variant: a landmark with the visibility of the threshold is
\* left out.
pixel_landmarks_Above(landmarks, shape) ==
    [i \in 1..Len(landmarks) |->
        IF landmarks[i].visibility > min_visibility
        THEN << (landmarks[i].x * shape[2]) \div One,
                (landmarks[i].y * shape[1]) \div One,
                landmarks[i].visibility >>
        ELSE None]

\* overlay_renderer.py 70-80: the pixel coordinates of the landmarks that are
\* visible enough, None for the others.
pixel_landmarks(landmarks, shape) ==
    [i \in 1..Len(landmarks) |->
        IF landmarks[i].visibility >= min_visibility
        THEN << (landmarks[i].x * shape[2]) \div One,
                (landmarks[i].y * shape[1]) \div One,
                landmarks[i].visibility >>
        ELSE None]

\* overlay_renderer.py 86-89: both ends of the connection are landmarks that
\* will be drawn.
ConnectionDrawn(connection, pixels) ==
    /\ connection[1] < Len(pixels)
    /\ connection[2] < Len(pixels)
    /\ pixels[connection[1] + 1] # None
    /\ pixels[connection[2] + 1] # None

\* overlay_renderer.py 84-95: one cv2.line per connection that is drawn.
RECURSIVE DrawConnections(_, _, _, _)
DrawConnections(h, ref, pixels, connections) ==
    IF connections = <<>> THEN h
    ELSE LET connection == Head(connections)
             drawn == IF ConnectionDrawn(connection, pixels)
                      THEN cv2_draw(h, ref,
                               <<"line",
                                 SubSeq(pixels[connection[1] + 1], 1, 2),
                                 SubSeq(pixels[connection[2] + 1], 1, 2),
                                 connection_color>>)
                      ELSE h
         IN  DrawConnections(drawn, ref, pixels, Tail(connections))

Min(a, b) == IF a <= b THEN a ELSE b

\* overlay_renderer.py 103-108: the landmark colour dimmed by the visibility.
adjusted_color(visibility) ==
    LET color_intensity == (255 * visibility) \div One
    IN  << Min(landmark_color[1], color_intensity),
           Min(landmark_color[2], color_intensity),
           Min(landmark_color[3], color_intensity) >>

\* overlay_renderer.py 99-117: one cv2.circle per landmark that is drawn, and
\* its index beside it when the circles are larger than 3.
RECURSIVE DrawLandmarks(_, _, _, _)
DrawLandmarks(h, ref, pixels, i) ==
    IF i >= Len(pixels) THEN h
    ELSE LET pixel_lm == pixels[i + 1]
             circled == IF pixel_lm = None THEN h
                        ELSE cv2_draw(h, ref,
                                 <<"circle", SubSeq(pixel_lm, 1, 2),
                                   adjusted_color(pixel_lm[3])>>)
             indexed == IF pixel_lm # None /\ landmark_size > 3
                        THEN cv2_draw(circled, ref, <<"text", i>>)
                        ELSE circled
         IN  DrawLandmarks(indexed, ref, pixels, i + 1)

\* Where render_pose_overlay hands its result: to its caller, or to line 137
\* of render_pose_with_confidence.
AfterOverlay(call) ==
    IF call.method = "render_pose_overlay" THEN "returned" ELSE "confidence"

\* overlay_renderer.py 135, 66-70: render_pose_overlay is entered, by the
\* caller or by render_pose_with_confidence, and copies the image; with no
\* landmark the copy is what it returns.
RenderCopy ==
    /\ render_pc = "entry"
    /\ LET copied == ndarray_copy(heap, render_call.image)
       IN  /\ heap' = copied.heap
           /\ overlay_image' = copied.ref
           /\ IF render_call.landmarks = <<>>
              THEN /\ render_pc' = AfterOverlay(render_call)
                   /\ render_returned' =
                          IF render_call.method = "render_pose_overlay"
                          THEN copied.ref ELSE 0
              ELSE /\ render_pc' = "connections"
                   /\ UNCHANGED render_returned
    /\ UNCHANGED <<callerVars, render_call>>

\* overlay_renderer.py 83-95.
RenderConnections ==
    /\ render_pc = "connections"
    /\ heap' = IF render_call.draw_connections
               THEN DrawConnections(heap, overlay_image,
                        pixel_landmarks(render_call.landmarks,
                                        heap[render_call.image].shape),
                        POSE_CONNECTIONS)
               ELSE heap
    /\ render_pc' = "landmarks"
    /\ UNCHANGED <<callerVars, render_call, overlay_image,
                   render_returned>>

\* overlay_renderer.py 98-119.
RenderLandmarks ==
    /\ render_pc = "landmarks"
    /\ heap' = IF render_call.draw_landmarks
               THEN DrawLandmarks(heap, overlay_image,
                        pixel_landmarks(render_call.landmarks,
                                        heap[render_call.image].shape), 0)
               ELSE heap
    /\ render_pc' = AfterOverlay(render_call)
    /\ render_returned' = IF render_call.method = "render_pose_overlay"
                          THEN overlay_image ELSE 0
    /\ UNCHANGED <<callerVars, render_call, overlay_image>>

\* overlay_renderer.py 139-152: the texts of render_pose_with_confidence.
ConfidenceTexts(pose_result) ==
    << <<"text", "Confidence", pose_result.confidence>>,
       <<"text", "Frame", pose_result.frame_id>> >>
    \o (IF FractionLess(Fraction(0, 1), pose_result.timestamp)
        THEN << <<"text", "Time", pose_result.timestamp>> >> ELSE <<>>)

RECURSIVE DrawAll(_, _, _)
DrawAll(h, ref, drawings) ==
    IF drawings = <<>> THEN h
    ELSE DrawAll(cv2_draw(h, ref, Head(drawings)), ref, Tail(drawings))

\* overlay_renderer.py 137-154.
RenderConfidence ==
    /\ render_pc = "confidence"
    /\ heap' = IF render_call.show_confidence
               THEN DrawAll(heap, overlay_image,
                            ConfidenceTexts(render_call.pose_result))
               ELSE heap
    /\ render_pc' = "returned"
    /\ render_returned' = overlay_image
    /\ UNCHANGED <<callerVars, render_call, overlay_image>>

NextRenderer ==
    \/ RenderCopy
    \/ RenderConnections
    \/ RenderLandmarks
    \/ RenderConfidence

SpecRenderer == InitRenderCall /\ [][NextRenderer]_vars

\* C28: while and after render_pose_overlay or render_pose_with_confidence
\* runs, the image it was given is as it was, and the image it returns is
\* another object than the one it was given, with or without landmarks.
C28_InputImageUntouched ==
    render_pc # "idle" =>
        /\ heap[render_call.image] = InputImage
        /\ render_pc = "returned" =>
              /\ render_returned \in 1..Len(heap)
              /\ render_returned # render_call.image

\* A call with landmarks has returned an image with drawings on it.
C28_Witness ==
    /\ render_pc = "returned"
    /\ render_call.landmarks # <<>>
    /\ heap[render_returned].draws # <<>>

\* The run has computed its statistics.
StatsComputed == pc \in {"export", "cleanup", "returned"}

\* C29: the statistics of every run of process_input, a second run on the
\* same PoseProcessor included, have total_frames equal to the number of
\* frames read (video) or images visited (image, directory) in that run,
\* whatever the frame count of the container's metadata, and an end of
\* stream before that count ends the run normally.
C29_TotalFramesOfRun ==
    StatsComputed => stats.total_frames = frames_read

\* C30: in a run that has not failed, every frame read and every image
\* visited has advanced the progress tracker once, when the processor has
\* one, and the profiler's frame counter once, with or without a pose; so
\* when the run ends both counts are the number of frames of the run.
C30_OncePerFrame ==
    error = "none" =>
        /\ frames_processed - frames_at_start = frames_read
        /\ progress_updates = IF show_progress THEN frames_read ELSE 0

\* A run with a tracker has returned after two or more frames, the last of
\* them without a pose.
C30_Witness ==
    /\ pc = "returned"
    /\ show_progress
    /\ frames_read >= 2
    /\ estimator_calls[Len(estimator_calls)].outcome = "none"
    /\ progress_updates = frames_read

\* The per-run directories FileManager.create_output_paths makes.
RunDirectories == {"output_dir", "frames_dir", "overlay_dir"}

\* C31: within a run, a frame is read only when the output directories
\* exist; the statistics are built and the export is entered only from the
\* stopped profiler, after which no frame is read and the Estimator is not
\* called; the JSON and CSV files change only in the export step, which is
\* taken at most once and has the statistics of the whole run; directories
\* are removed only by the cleanup, which follows the export.
C31_PipelineOrder ==
    [][run' = run =>
          /\ frames_read' # frames_read => RunDirectories \subseteq fs_dirs
          /\ pc' = "stop_profiler" /\ pc # "stop_profiler" =>
                /\ profiler_started
                /\ RunDirectories \subseteq fs_dirs
          /\ pc' = "export" /\ pc # "export" => pc = "stop_profiler"
          /\ pc \in {"stop_profiler", "export", "cleanup", "returned"} =>
                /\ frames_read' = frames_read
                /\ estimator_calls' = estimator_calls
                /\ detected_poses' = detected_poses
          /\ json_file' # json_file \/ csv_file' # csv_file =>
                /\ pc = "export"
                /\ json_file = Absent /\ csv_file = Absent
                /\ ~profiler_started
                /\ stats = ProcessingStats(frames_processed, detected_poses)
          /\ pc = "export" => pc' # "export"
          /\ pc' = "cleanup" /\ pc # "cleanup" => pc = "export"
          /\ fs_dirs' # fs_dirs /\ ~(fs_dirs \subseteq fs_dirs') =>
                pc = "cleanup"]_vars

\* A run of two or more frames has exported both files and returned after the
\* cleanup removed the empty frames directory.
C31_Witness ==
    /\ pc = "returned"
    /\ frames_read >= 2
    /\ json_file # Absent /\ csv_file # Absent
    /\ "frames_dir" \notin fs_dirs

\* C32: an Estimator call that raises is the last call of its run, at the
\* first frame or after results of earlier frames: the run has raised
\* DetectionError, no later frame is read, and neither the JSON nor the CSV
\* file is written.
C32_EstimatorErrorAborts ==
    \A i \in 1..Len(estimator_calls) :
        estimator_calls[i].outcome = "raise" =>
            /\ i = Len(estimator_calls)
            /\ frames_read <= i
            /\ pc \in {"raised", "exited"}
            /\ error = "DetectionError"
            /\ json_file = Absent
            /\ csv_file = Absent

\* A video whose third frame makes the Estimator raise, after a pose was
\* found in an earlier frame.
C32_Witness ==
    /\ input_type = "video"
    /\ Len(estimator_calls) = 3
    /\ estimator_calls[3].outcome = "raise"
    /\ detected_poses # <<>>
    /\ error = "DetectionError"

\* C33: an exception other than an interrupt that leaves process_input is a
\* PipeDetectError: a ValidationError, FileProcessingError, DetectionError or
\* OutputError raised inside leaves it as it is, any other exception leaves
\* it as a plain PipeDetectError.
C33_RootErrorType ==
    pc \in {"raised", "exited"} /\ exception \notin {"none", "KeyboardInterrupt"} =>
        /\ error \in PipeDetectErrors
        /\ exception \in PipeDetectErrors => error = exception
        /\ exception \notin PipeDetectErrors => error = "PipeDetectError"

\* A division by zero in the video loop has left process_input as a
\* PipeDetectError.
C33_Witness ==
    /\ pc = "raised"
    /\ exception = "ZeroDivisionError"
    /\ error = "PipeDetectError"

\* ================================================ a run beside its sampler
\* processor.py 75-136 with performance.py 52-131: a run on a video, whose
\* profiler.start() starts the sampler thread and whose profiler.stop() is
\* the call of stop() modelled above. The steps of the sampler thread
\* interleave with those of the run in every order.

InitSampled ==
    /\ Init
    /\ input_path = VideoPath
    /\ dirs_before = {}

\* processor.py 92-103: profiler.start() and the dispatch.
SampledStart ==
    /\ Dispatch
    /\ StartThread

\* processor.py 106: profiler.stop(), step by step.
SampledStop ==
    /\ pc = "stop_profiler"
    /\ stop

\* processor.py 106-118: stop() has returned and the statistics are built.
SampledStats ==
    /\ profiler_pc = "stopped"
    /\ ProfilerStop

NextSampled ==
    \/ Validate
    \/ CreateOutputPaths
    \/ SampledStart
    \/ VideoOpen
    \/ VideoProgressStartFails
    \/ VideoFrame
    \/ VideoEnd
    \/ VideoProgressFinishFails
    \/ SampledStop
    \/ SampledStats
    \/ ExportResults
    \/ Cleanup
    \/ Interrupt
    \/ MainExit
    \/ monitor_system_resources

SpecSampled == InitSampled /\ [][NextSampled]_vars

\* A step of a sampler thread: a thread that exists has moved.
SamplerStep ==
    \E t \in DOMAIN monitoring_threads :
        monitoring_threads'[t] # monitoring_threads[t]

\* Everything but the threads themselves and the two sample lists.
notSampledVars ==
    <<pipelineVars, profiler_pc, stop_monitoring, stop_sum, metrics>>

\* The run is between two frames of its loop.
InFrameLoop == pc = "video_loop" /\ frames_read < video.nframes

\* C34: the sampler interleaves with the run without bearing on it. A step
\* of a sampler thread changes nothing but the thread and the sample lists:
\* not the frame counter, the Estimator calls, the frame ids, the files or
\* the results; and wherever the sampler stands, the run's next frame can be
\* processed, or the stream ended, without waiting for it.
C34_SamplerApart ==
    /\ [](InFrameLoop => ENABLED VideoFrame)
    /\ [](pc = "video_loop" /\ ~InFrameLoop => ENABLED VideoEnd)
    /\ [][SamplerStep => UNCHANGED notSampledVars]_vars

\* A run of two or more frames has returned with results, the sampler
\* having taken a complete sample meanwhile.
C34_Witness ==
    /\ pc = "returned"
    /\ frames_read >= 2
    /\ detected_poses # <<>>
    /\ cpu_samples # <<>> /\ memory_samples # <<>>

\* Control is back in process_input after the frames of the video, or has
\* left it.
AfterVideoFrames ==
    /\ input_type = "video"
    /\ pc \in {"stop_profiler", "export", "cleanup", "returned", "raised", "exited"}

\* C35: in video mode, when frame processing is over, by the end of the
\* stream, by an error of the Estimator or of a frame or overlay write, or by
\* an interrupt, the capture that was opened has been released and the
\* progress tracker has been finished (unless finish() itself raised).
C35_VideoScopesClosed ==
    AfterVideoFrames =>
        /\ ~capture_open
        /\ progress_active => progress_failed

\* A video with a tracker whose second frame could not be written.
C35_Witness ==
    /\ AfterVideoFrames
    /\ show_progress
    /\ frames_read = 2
    /\ failed_write = "frame"
    /\ error = "OutputError"

\* The pixel of a landmark in the input image: int(x * width), int(y * height).
PixelOf(lm) ==
    << (lm.x * InputImage.shape[2]) \div One,
       (lm.y * InputImage.shape[1]) \div One >>

\* Landmark i, counted from 0, exists and is visible enough to be drawn.
IsDrawn(landmarks, i) ==
    /\ i < Len(landmarks)
    /\ landmarks[i + 1].visibility >= min_visibility

\* The drawings of one kind made on an image, in the order they were made.
Drawn(image, kind) == SelectSeq(image.draws, LAMBDA d : d[1] = kind)

\* The connections of the topology table with both ends drawn, in the
\* table's order.
ConnectionsOf(landmarks) ==
    SelectSeq(POSE_CONNECTIONS,
              LAMBDA c : IsDrawn(landmarks, c[1]) /\ IsDrawn(landmarks, c[2]))

\* The landmarks that are drawn, in the list's order.
PointsOf(landmarks) ==
    SelectSeq(landmarks, LAMBDA lm : lm.visibility >= min_visibility)

\* C36: the image render_pose_overlay returns carries, when points are
\* drawn, one point for each landmark whose visibility is min_visibility
\* (0.5) or more, at that landmark's pixel, and no other point; and, when
\* connections are drawn, one line for each connection of the table whose
\* two indices are below the number of landmarks and whose two landmarks
\* have that visibility, between their pixels, and no other line.
C36_DrawnIffVisible ==
    render_pc = "returned" =>
        LET landmarks == render_call.landmarks
            lines == Drawn(heap[render_returned], "line")
            points == Drawn(heap[render_returned], "circle")
            connections == IF render_call.draw_connections
                           THEN ConnectionsOf(landmarks) ELSE <<>>
            visible == IF render_call.draw_landmarks
                       THEN PointsOf(landmarks) ELSE <<>>
        IN  /\ Len(lines) = Len(connections)
            /\ \A k \in 1..Len(lines) :
                  /\ lines[k][2] = PixelOf(landmarks[connections[k][1] + 1])
                  /\ lines[k][3] = PixelOf(landmarks[connections[k][2] + 1])
            /\ Len(points) = Len(visible)
            /\ \A k \in 1..Len(points) : points[k][2] = PixelOf(visible[k])

\* Three landmarks, the first at the threshold, the second below it and the
\* third above it, have been rendered: two points and no line.
C36_Witness ==
    /\ render_pc = "returned"
    /\ render_call.draw_landmarks /\ render_call.draw_connections
    /\ Len(render_call.landmarks) = 3
    /\ render_call.landmarks[1].visibility = min_visibility
    /\ render_call.landmarks[2].visibility < min_visibility
    /\ render_call.landmarks[3].visibility > min_visibility
    /\ Len(Drawn(heap[render_returned], "circle")) = 2
    /\ Drawn(heap[render_returned], "line") = <<>>

\* ------------------------------------------- PoseDetector.detect_batch_images
\* str.upper() on one character of a suffix.
UpperChar(c) ==
    CASE c = "b" -> "B"
      [] c = "e" -> "E"
      [] c = "f" -> "F"
      [] c = "g" -> "G"
      [] c = "i" -> "I"
      [] c = "j" -> "J"
      [] c = "m" -> "M"
      [] c = "n" -> "N"
      [] c = "p" -> "P"
      [] c = "t" -> "T"
      [] c = "w" -> "W"
      [] OTHER -> c

Upper(s) == [i \in 1..Len(s) |-> UpperChar(s[i])]

\* pose_detector.py 139: the suffixes detect_batch_images globs for, in one
\* of the orders the set may be iterated in (the list is sorted afterwards).
supported_extensions ==
    << <<".", "j", "p", "g">>, <<".", "j", "p", "e", "g">>,
       <<".", "p", "n", "g">>, <<".", "b", "m", "p">>,
       <<".", "t", "i", "f", "f">>, <<".", "w", "e", "b", "p">> >>

\* The names a batch directory may hold: images spelled in lower case, in
\* upper case and in mixed case, a .tif image, and a file that is no image.
BatchUniverse ==
    << <<"a", ".", "j", "p", "g">>,
       <<"b", ".", "t", "i", "f">>,
       <<"c", ".", "P", "N", "G">>,
       <<"d", ".", "J", "p", "g">>,
       <<"e", ".", "t", "x", "t">> >>

BatchNames == {BatchUniverse[i] : i \in 1..Len(BatchUniverse)}

\* The batch directories: up to MaxFiles of these names, in every order
\* the directory may be scanned in.
BatchDirectories ==
    {s \in UNION {[1..n -> BatchNames] : n \in 0..MaxFiles} :
        \A i, j \in 1..Len(s) : i # j => s[i] # s[j]}

\* fnmatch of a name against "*" followed by a suffix; pathlib compares the
\* characters as they are on POSIX and without regard to case on Windows.
MatchesGlob(name, ext, case_sensitive) ==
    /\ Len(name) >= Len(ext)
    /\ LET tail == SubSeq(name, Len(name) - Len(ext) + 1, Len(name))
       IN  IF case_sensitive THEN tail = ext ELSE Lower(tail) = Lower(ext)

\* Path.glob("*" + ext) on a directory scanned in the order `entries`.
glob(entries, ext, case_sensitive) ==
    SelectSeq(entries, LAMBDA name : MatchesGlob(name, ext, case_sensitive))

\* pose_detector.py 141-144: the two globs of every suffix, appended.
RECURSIVE GlobAll(_, _, _)
GlobAll(entries, extensions, case_sensitive) ==
    IF extensions = <<>> THEN <<>>
    ELSE glob(entries, Head(extensions), case_sensitive)
         \o glob(entries, Upper(Head(extensions)), case_sensitive)
         \o GlobAll(entries, Tail(extensions), case_sensitive)

\* pose_detector.py 139-146: the image_files of detect_batch_images, sorted.
batch_image_files(entries, case_sensitive) ==
    Sorted(GlobAll(entries, supported_extensions, case_sensitive))

InitBatch ==
    /\ input_path = DirPath
    /\ video = NoVideo
    /\ listing \in BatchDirectories
    /\ save_frames = TRUE
    /\ save_overlays = TRUE
    /\ show_progress = FALSE
    /\ dirs_before = {"output_dir"}
    /\ fs_dirs = dirs_before
    /\ pc = "batch_glob"
    /\ input_type = "unknown"
    /\ frame_files = <<>>
    /\ overlay_files = <<>>
    /\ image_files = <<>>
    /\ iterdir_sorted = TRUE
    /\ frames_read = 0
    /\ saved_frame_counter = 0
    /\ detected_poses = <<>>
    /\ estimator_calls = <<>>
    /\ frames_processed = 0
    /\ profiler_started = FALSE
    /\ progress_active = FALSE
    /\ capture_open = FALSE
    /\ progress_updates = 0
    /\ progress_failed = FALSE
    /\ failed_write = "none"
    /\ stats = NoStats
    /\ json_file = Absent
    /\ csv_file = Absent
    /\ error = "none"
    /\ exception = "none"
    /\ exit_code = -1
    /\ InitSampler
    /\ InitProcessor
    /\ InitRenderer

\* What the steps of detect_batch_images leave alone.
batchUnchanged ==
    <<inputVars, samplerVars, processorVars, rendererVars, fileVars,
      iterdir_sorted, saved_frame_counter, frames_processed, progressVars,
      capture_open, failed_write, input_type, profiler_started, stats,
      exit_code>>

\* pose_detector.py 139-148: the list is built and sorted before the first
\* image is visited.
BatchGlob ==
    /\ pc = "batch_glob"
    /\ \E case_sensitive \in BOOLEAN :
          image_files' = batch_image_files(listing, case_sensitive)
    /\ pc' = "batch_loop"
    /\ UNCHANGED <<batchUnchanged, frames_read, detected_poses,
                   estimator_calls, error, exception>>

\* The generator raises what detect_single_image raised.
BatchRaise(e) ==
    /\ pc' = "batch_raised"
    /\ exception' = e
    /\ error' = e

\* pose_detector.py 150-153: one iteration: detect_single_image on the next
\* file, under its position in the list; a result that is not None is
\* yielded.
BatchImage ==
    /\ pc = "batch_loop"
    /\ frames_read < Len(image_files)
    /\ LET image_path == image_files[frames_read + 1]
           frame_id == frames_read
       IN  \/ /\ BatchRaise("FileProcessingError")
              /\ UNCHANGED <<frames_read, detected_poses, estimator_calls>>
           \/ /\ estimator_calls' =
                    Append(estimator_calls, Call(image_path, "raise"))
              /\ BatchRaise("DetectionError")
              /\ UNCHANGED <<frames_read, detected_poses>>
           \/ \E lm \in EstimatorLandmarks(frames_read + 1) :
                 /\ ~PoseResultConstructs(lm)
                 /\ estimator_calls' =
                       Append(estimator_calls, PoseCall(image_path, lm))
                 /\ BatchRaise("DetectionError")
                 /\ UNCHANGED <<frames_read, detected_poses>>
           \/ \E lm \in EstimatorLandmarks(frames_read + 1) :
                 /\ PoseResultConstructs(lm)
                 /\ estimator_calls' =
                       Append(estimator_calls, PoseCall(image_path, lm))
                 /\ detected_poses' =
                       Append(detected_poses,
                              ImagePoseResult(image_path, frame_id,
                                              frames_read + 1, lm))
                 /\ frames_read' = frames_read + 1
                 /\ UNCHANGED <<pc, error, exception>>
           \/ /\ estimator_calls' =
                    Append(estimator_calls, Call(image_path, "none"))
              /\ frames_read' = frames_read + 1
              /\ UNCHANGED <<pc, detected_poses, error, exception>>
    /\ UNCHANGED <<batchUnchanged, image_files>>

\* pose_detector.py 150: the list is exhausted, the generator ends.
BatchEnd ==
    /\ pc = "batch_loop"
    /\ frames_read = Len(image_files)
    /\ pc' = "batch_done"
    /\ UNCHANGED <<batchUnchanged, image_files, frames_read, detected_poses,
                   estimator_calls, error, exception>>

NextBatch ==
    \/ BatchGlob
    \/ BatchImage
    \/ BatchEnd

SpecBatch == InitBatch /\ [][NextBatch]_vars

\* The (frame_id, file) pairs directory mode hands to detect_single_image
\* for a directory: validate_image_directory's list, each file under its
\* position (processor.py 280, 287-288).
DirectoryModeVisits(entries) ==
    LET files == validate_image_directory(entries)
    IN  [i \in 1..Len(files) |->
            <<DirResultFrameId(i - 1, 0), files[i]>>]

\* The (frame_id, file) pairs detect_batch_images is going to use.
BatchVisits == [i \in 1..Len(image_files) |-> <<i - 1, image_files[i]>>]

\* C37: detect_batch_images visits the files directory mode visits on the
\* same directory: those of the image allow-list without regard to case,
\* each once, in sorted order, each under the frame_id directory mode
\* gives it.
C37_BatchAsDirectoryMode ==
    pc \in {"batch_loop", "batch_done", "batch_raised"} =>
        BatchVisits = DirectoryModeVisits(listing)

\* C38: the statistics of every run of process_input that got as far as
\* computing them have processed_frames equal to the number of results, the
\* list handed to the exporters; failed_frames = total_frames -
\* processed_frames; and 0 <= processed_frames <= total_frames, so that
\* failed_frames >= 0 and the success rate lies between 0 and 1.
C38_StatsConsistent ==
    StatsComputed =>
        /\ stats.processed_frames = Len(detected_poses)
        /\ json_file.state = "written" /\ json_file.metadata = stats
              => Len(json_file.results) = stats.processed_frames
        /\ stats.failed_frames = stats.total_frames - stats.processed_frames
        /\ 0 <= stats.processed_frames
        /\ stats.processed_frames <= stats.total_frames
        /\ stats.failed_frames >= 0
        /\ ~FractionLess(success_rate(stats), Fraction(0, 1))
        /\ ~FractionLess(Fraction(1, 1), success_rate(stats))

\* A run has returned statistics with some frames processed and some not,
\* and the results were exported.
C38_Witness ==
    /\ pc = "returned"
    /\ 0 < stats.processed_frames
    /\ stats.processed_frames < stats.total_frames
    /\ json_file.state = "written"
    /\ json_file.metadata = stats

\* process_input has returned or raised.
RunEnded == pc \in {"returned", "raised", "exited"}

\* C39: once process_input has started the profiler, the stop signal is set
\* when process_input returns or raises, whatever the error, so that no
\* sampler thread of the run goes on sampling after the run.
C39_SamplerStoppedWithRun ==
    RunEnded /\ monitoring_threads # <<>> => stop_monitoring

\* A sampler thread that goes on appending: in the body of its loop, or at
\* the loop's test with the stop signal clear.
GoesOnSampling(thread) ==
    \/ thread.at \in {"cpu", "memory"}
    \/ thread.at = "loop" /\ ~stop_monitoring

\* C40: whatever the sequence of start() and stop() calls on a profiler, a
\* start() after a stop() whose join timed out included, at most one sampler
\* thread goes on appending to its sample lists: a thread that was signalled
\* to stop is not put back to sampling by a later start() clearing the
\* signal.
C40_OneSampler ==
    Cardinality({t \in DOMAIN monitoring_threads :
                    GoesOnSampling(monitoring_threads[t])}) <= 1

====
